---- MODULE Spec2Model ----
(***************************************************************************)
(* Model of deepdoctection/datapoint/view.py: the Document class           *)
(* (multi-page entity stitching), the Layout, Cell and Table views, the    *)
(* view factory and the Page with its construction from an image.          *)
(*                                                                         *)
(* Python values are represented as follows.                               *)
(*   - a dict with fixed keys is a record, a list is a sequence;           *)
(*   - None returned by a lookup is the empty sequence None, a found       *)
(*     value v is <<v>>;                                                   *)
(*   - the result of _is_same_table / _is_same_paragraph is one of the     *)
(*     strings "True", "False", "None" (the functions fall off their end   *)
(*     when the geometric gate fails);                                     *)
(*   - a str is a sequence of one-character strings;                       *)
(*   - 0.5 * page_height < y is computed as page_height < 2 * y, which is  *)
(*     the same comparison for the numbers used here.                      *)
(***************************************************************************)
EXTENDS Integers, Sequences, FiniteSets, TLC

VARIABLES
    pages,                        \* Document.pages
    pc,                           \* position of the caller: "ready", then the call made
    doc_table_metadata_list,      \* detect_multi_page_entities: first list of _get_page_metadata
    doc_paragraph_metadata_list,  \* detect_multi_page_entities: second list of _get_page_metadata
    comparable_pairs_list,        \* per kind, the list _comparable_pairs returned
    final_result,                 \* the dict detect_multi_page_entities returns
    metadata_list,                \* _get_comparable_pairs: the list object the for loop iterates
    doc_page_metadata_list,       \* _get_comparable_pairs: the working list (rebound in the loop)
    lowest_page_num,              \* _get_comparable_pairs: local lowest_page_num
    final_list,                   \* _get_comparable_pairs: local final_list
    iteration,                    \* _get_comparable_pairs: number of loop iterations done
    annotations,                  \* Page.annotations of the base page of the views
    called,                       \* annotation_id of the view a method was called on, or
                                  \* the arguments of the calls
    returned,                     \* what the method returned
    floating_text_block_categories,  \* Page.floating_text_block_categories of the page
    caller_categories             \* the list object a caller hands to Page.from_image as
                                  \* floating_text_block_categories, or None

docVars == <<pages, doc_table_metadata_list, doc_paragraph_metadata_list,
             comparable_pairs_list, final_result>>
loopVars == <<metadata_list, doc_page_metadata_list, lowest_page_num, final_list, iteration>>
viewVars == <<annotations, called, returned>>
pageVars == <<floating_text_block_categories, caller_categories>>
vars == <<pc, docVars, loopVars, viewVars, pageVars>>

----------------------------------------------------------------------------
(* Bounds of the model *)

\* at most this many pages in a Document
MaxPages == 4
\* Page.page_number ranges over 0..MaxPageNumber
MaxPageNumber == 3
\* at most this many records in a metadata list handed to _comparable_pairs
MaxMeta == 4
\* at most this many characters in the text of a paragraph
MaxTextLen == 2
\* at most this many tables, and this many layout blocks, on the page whose
\* paragraph metadata is extracted
MaxTablesOnPage == 2
MaxLayoutsOnPage == 1
\* at most this many words, and this many cells of a table, in the annotations
\* of a page
MaxWords == 2
MaxCells == 2
\* at most this many entries in the html template of a table
MaxTemplate == 3
\* at most this many top level annotations on the page whose chunks and
\* layout contexts are read, and context_size ranges over 0..MaxContext
MaxBlocks == 3
MaxContext == 2
\* images are nested in annotations of images at most this deep
MaxDepth == 2

----------------------------------------------------------------------------
(* Python helpers *)

None == <<>>
Some(v) == <<v>>

\* the value "" that _get_lowest_page_num returns for an empty list; page
\* numbers are page_number + 1 >= 1, so -1 is no page number
EmptyStr == -1

IsInt(v) == v # EmptyStr

\* None where a number is expected (an attribute that resolves to None)
NoneInt == -2

Min(S) == CHOOSE m \in S : \A n \in S : m <= n

RECURSIVE Concat(_)
\* the concatenation of a sequence of lists (list.extend in a loop)
Concat(ss) == IF ss = <<>> THEN <<>> ELSE Head(ss) \o Concat(Tail(ss))

Digit == <<"0", "1", "2", "3", "4", "5", "6", "7", "8", "9">>

RECURSIVE Str(_)
\* str(n) for a natural number n: its decimal digits
Str(n) == IF n < 10 THEN Digit[n + 1] ELSE Str(n \div 10) \o Digit[(n % 10) + 1]

EmptyDict == [k \in {} |-> None]

\* IMAGE_DEFAULTS; the text container is the definition text_container
IMAGE_DEFAULTS == [floating_text_block_categories |-> <<"text", "title", "figure", "list">>]

\* the elements of a list
Range(list) == {list[i] : i \in 1..Len(list)}

\* The page was made by Page.from_image(image) with the defaults: the copy of
\* the default categories with line appended.
DefaultPage ==
    /\ floating_text_block_categories = Append(IMAGE_DEFAULTS.floating_text_block_categories, "line")
    /\ caller_categories = None

----------------------------------------------------------------------------
(* Document: metadata extraction *)

is_there_table(table_len) == table_len > 0

format_bbox(bbox) == [x1 |-> bbox[1], y1 |-> bbox[2], x2 |-> bbox[3], y2 |-> bbox[4]]

\* mutant: only the upper left corner of the paragraph is tested
is_paragraph_in_table_corner(paragraph_bbox, table_bboxes) ==
    \E i \in 1..Len(table_bboxes) :
        LET table_bbox == table_bboxes[i] IN
        /\ table_bbox.x1 <= paragraph_bbox.x1 /\ paragraph_bbox.x1 <= table_bbox.x2
        /\ table_bbox.y1 <= paragraph_bbox.y1 /\ paragraph_bbox.y1 <= table_bbox.y2

is_paragraph_in_table(paragraph_bbox, table_bboxes) ==
    \E i \in 1..Len(table_bboxes) :
        LET table_bbox == table_bboxes[i] IN
        /\ table_bbox.x1 <= paragraph_bbox.x1 /\ paragraph_bbox.x1 <= table_bbox.x2
        /\ table_bbox.y1 <= paragraph_bbox.y1 /\ paragraph_bbox.y1 <= table_bbox.y2
        /\ table_bbox.x1 <= paragraph_bbox.x2 /\ paragraph_bbox.x2 <= table_bbox.x2
        /\ table_bbox.y1 <= paragraph_bbox.y2 /\ paragraph_bbox.y2 <= table_bbox.y2

\* the keys of the record that the stitching reads; file_name, page_bbox,
\* document_id, page_width, reading_order and np_image are carried along unread
get_paragraph_metadata(page, layout) ==
    [page_num    |-> page.page_number + 1,
     page_height |-> page.height,
     text        |-> layout.text,
     bbox        |-> format_bbox(layout.bbox)]

get_page_paragraph_metadata(page) ==
    LET table_len == Len(page.tables)
        table_bbox_list == [i \in 1..Len(page.tables) |-> format_bbox(page.tables[i].bbox)]
        IsText(layout) == layout.category_name = "text"
        Kept(layout) ==
            /\ layout.category_name = "text"
            /\ ~is_paragraph_in_table(format_bbox(layout.bbox), table_bbox_list)
        kept == IF is_there_table(table_len)
                THEN SelectSeq(page.layouts, Kept)
                ELSE SelectSeq(page.layouts, IsText)
    IN  [i \in 1..Len(kept) |-> get_paragraph_metadata(page, kept[i])]

get_page_table_metadata(page) ==
    LET table_len == Len(page.tables) IN
    IF is_there_table(table_len)
    THEN [i \in 1..Len(page.tables) |->
            [page_num         |-> page.page_number + 1,
             page_height      |-> page.height,
             table_column_num |-> page.tables[i].number_of_columns,
             table_bbox       |-> format_bbox(page.tables[i].bbox)]]
    ELSE <<>>

\* <<doc_page_table_metadata_list, doc_page_paragraph_metadata_list>>
get_page_metadata(ps) ==
    << Concat([i \in 1..Len(ps) |-> get_page_table_metadata(ps[i])]),
       Concat([i \in 1..Len(ps) |-> get_page_paragraph_metadata(ps[i])]) >>

----------------------------------------------------------------------------
(* Document: pairing *)

\* mutant: the page number of the first record of the list
get_lowest_page_num_of_first(list) ==
    LET page_num_list == [i \in 1..Len(list) |-> list[i].page_num] IN
    IF page_num_list # <<>>
    THEN page_num_list[1]
    ELSE EmptyStr

get_lowest_page_num(list) ==
    LET page_num_list == [i \in 1..Len(list) |-> list[i].page_num] IN
    IF page_num_list # <<>>
    THEN Min({page_num_list[i] : i \in 1..Len(page_num_list)})
    ELSE EmptyStr

\* mutant: the first record on page_num or on a later page
get_page_table_data_at_least(page_metadata_list, page_num) ==
    LET hits == {i \in 1..Len(page_metadata_list) : page_metadata_list[i].page_num >= page_num} IN
    IF hits # {} THEN Some(page_metadata_list[Min(hits)]) ELSE None

get_page_table_data(page_metadata_list, page_num) ==
    LET hits == {i \in 1..Len(page_metadata_list) : page_metadata_list[i].page_num = page_num} IN
    IF hits # {} THEN Some(page_metadata_list[Min(hits)]) ELSE None

\* mutant: only the first record of the lowest page is removed
delete_lowest_num_page_data_first(page_metadata_list, lowest) ==
    LET hits == {i \in 1..Len(page_metadata_list) : page_metadata_list[i].page_num = lowest}
        Other(i) == hits = {} \/ i # Min(hits)
        kept == SelectSeq([i \in 1..Len(page_metadata_list) |-> i], Other)
    IN  [k \in 1..Len(kept) |-> page_metadata_list[kept[k]]]

delete_lowest_num_page_data(page_metadata_list, lowest) ==
    LET Other(metadata) == metadata.page_num # lowest IN
    SelectSeq(page_metadata_list, Other)

\* mutant: a record without successor is not removed from the working list
loop_body_keep_unpaired(st) ==
    IF IsInt(st.lowest)
    THEN LET next_page_num_metadata == get_page_table_data(st.list, st.lowest + 1)
             rest == delete_lowest_num_page_data(st.list, st.lowest)
         IN  IF next_page_num_metadata # None
             THEN [list   |-> rest,
                   lowest |-> get_lowest_page_num(rest),
                   final  |-> Append(st.final,
                                     <<get_page_table_data(st.list, st.lowest)[1],
                                       next_page_num_metadata[1]>>)]
             ELSE [list   |-> st.list,
                   lowest |-> get_lowest_page_num(st.list),
                   final  |-> st.final]
    ELSE st

\* One pass through the body of the for loop of _get_comparable_pairs, on the
\* locals st = [list, lowest, final].
loop_body(st) ==
    IF IsInt(st.lowest)
    THEN LET next_page_num == st.lowest + 1
             lowest_num_metadata == get_page_table_data(st.list, st.lowest)
             next_page_num_metadata == get_page_table_data(st.list, next_page_num)
             rest == delete_lowest_num_page_data(st.list, st.lowest)
         IN  IF next_page_num_metadata # None
             THEN [list   |-> rest,
                   lowest |-> get_lowest_page_num(rest),
                   final  |-> Append(st.final, <<lowest_num_metadata[1], next_page_num_metadata[1]>>)]
             ELSE [list   |-> rest,
                   lowest |-> get_lowest_page_num(rest),
                   final  |-> st.final]
    ELSE st

RECURSIVE loop_from(_, _)
\* the locals after n more iterations
loop_from(st, n) == IF n = 0 THEN st ELSE loop_from(loop_body(st), n - 1)

\* the for loop runs once per element of the list object it was started on
get_comparable_pairs(list, lowest) ==
    loop_from([list |-> list, lowest |-> lowest, final |-> <<>>], Len(list)).final

comparable_pairs(list) == get_comparable_pairs(list, get_lowest_page_num(list))

----------------------------------------------------------------------------
(* Document: equivalence test and result *)

\* mutant: a box that starts exactly at the middle of the page counts
is_close_to_footer_inclusive(page_height, upper_y_coord) == page_height <= 2 * upper_y_coord

is_close_to_footer(page_height, upper_y_coord) == page_height < 2 * upper_y_coord

is_close_to_header(page_height, lower_y_coord) == 2 * lower_y_coord < page_height

\* mutant: the test of the length is left out
not_end_with_fullstop_any_length(text) ==
    IF text = <<>> THEN FALSE
    ELSE IF text[Len(text)] # "." THEN TRUE
    ELSE FALSE

not_end_with_fullstop(text) ==
    IF text = <<>> \/ Len(text) = 1 THEN FALSE
    ELSE IF text[Len(text)] # "." THEN TRUE
    ELSE FALSE

is_same_paragraph(pairs) ==
    LET first_page == pairs[1]
        second_page == pairs[2]
    IN  IF /\ is_close_to_footer(first_page.page_height, first_page.bbox.y1)
           /\ is_close_to_header(second_page.page_height, second_page.bbox.y2)
        THEN IF not_end_with_fullstop(first_page.text) THEN "True" ELSE "False"
        ELSE "None"

\* mutant: the column counts are not compared
is_same_table_any_columns(pairs) ==
    LET first_page == pairs[1]
        second_page == pairs[2]
    IN  IF /\ is_close_to_footer(first_page.page_height, first_page.table_bbox.y1)
           /\ is_close_to_header(second_page.page_height, second_page.table_bbox.y2)
        THEN "True"
        ELSE "None"

is_same_table(pairs) ==
    LET first_page == pairs[1]
        second_page == pairs[2]
    IN  IF /\ is_close_to_footer(first_page.page_height, first_page.table_bbox.y1)
           /\ is_close_to_header(second_page.page_height, second_page.table_bbox.y2)
        THEN IF first_page.table_column_num = second_page.table_column_num
             THEN "True" ELSE "False"
        ELSE "None"

\* is_same_function(pairs), the function being named by the kind it is for
is_same(kind, pairs) ==
    IF kind = "table" THEN is_same_table(pairs) ELSE is_same_paragraph(pairs)

\* bool(comparison)
Truthy(comparison) == comparison = "True"

RECURSIVE collect_same_counting_all(_, _, _, _)
\* mutant: idx counts every pair, not only the equal ones
collect_same_counting_all(kind, list, idx, entity_result) ==
    IF list = <<>> THEN entity_result
    ELSE LET pairs == Head(list) IN
         IF Truthy(is_same(kind, pairs))
         THEN collect_same_counting_all(kind, Tail(list), idx + 1,
                                        entity_result @@ (Str(idx) :> <<pairs[1], pairs[2]>>))
         ELSE collect_same_counting_all(kind, Tail(list), idx + 1, entity_result)

RECURSIVE collect_same(_, _, _, _)
\* the for loop of _get_same_entities from pair k on, with locals idx and
\* entity_result
collect_same(kind, list, idx, entity_result) ==
    IF list = <<>> THEN entity_result
    ELSE LET pairs == Head(list) IN
         IF Truthy(is_same(kind, pairs))
         THEN collect_same(kind, Tail(list), idx + 1,
                           entity_result @@ (Str(idx) :> <<pairs[1], pairs[2]>>))
         ELSE collect_same(kind, Tail(list), idx, entity_result)

get_same_entities(list, kind) ==
    IF list # <<>>
    THEN collect_same(kind, comparable_pairs(list), 0, EmptyDict)
    ELSE EmptyDict

detect_multi_page_entities(ps) ==
    LET md == get_page_metadata(ps)
        table_result == IF md[1] # <<>> THEN get_same_entities(md[1], "table") ELSE EmptyDict
        paragraph_result == IF md[2] # <<>> THEN get_same_entities(md[2], "text") ELSE EmptyDict
        with_table == IF DOMAIN table_result # {} THEN ("table" :> table_result) ELSE EmptyDict
    IN  IF DOMAIN paragraph_result # {}
        THEN with_table @@ ("text" :> paragraph_result)
        ELSE with_table

----------------------------------------------------------------------------
(* The documents the specifications start from *)

\* all sequences over S of length at most n
SeqsUpTo(S, n) == UNION {[1..k -> S] : k \in 0..n}

\* those without a repeated element
InjSeqsUpTo(S, n) == {s \in SeqsUpTo(S, n) : \A i, j \in 1..Len(s) : s[i] = s[j] => i = j}

Heights == {100}

Page(page_number, height, tables, layouts) ==
    [page_number |-> page_number, height |-> height, tables |-> tables, layouts |-> layouts]

TableView(bbox, number_of_columns) == [bbox |-> bbox, number_of_columns |-> number_of_columns]

LayoutView(category_name, bbox, text) ==
    [category_name |-> category_name, bbox |-> bbox, text |-> text]

\* Documents of up to MaxPages pages with distinct page numbers, in any list
\* order; every page holds one table or one paragraph, in the top half or in
\* the bottom half of the page.
TopBox == <<10, 10, 90, 40>>
BottomBox == <<10, 60, 90, 90>>

MainContents ==
    {[tables |-> <<TableView(b, 2)>>, layouts |-> <<>>] : b \in {TopBox, BottomBox}}
    \cup {[tables |-> <<>>, layouts |-> <<LayoutView("text", b, <<"a", "b">>)>>] :
            b \in {TopBox, BottomBox}}

\* the document with page numbers ns and page contents cs
Doc(ns, cs) == [i \in 1..Len(ns) |-> Page(ns[i], 100, cs[i].tables, cs[i].layouts)]

MainDocs(ps) ==
    \E ns \in InjSeqsUpTo(0..MaxPageNumber, MaxPages) :
        \E cs \in [1..Len(ns) -> MainContents] : ps = Doc(ns, cs)

\* Documents of two pages, each with one table or one paragraph, over all
\* positions of the box relative to the middle of the page, all column counts
\* and all short texts.
GateYs == {10, 20, 50, 80, 90}
GateBoxes == {<<10, y1, 90, y2>> : y1, y2 \in GateYs} \ {b \in {<<10, y1, 90, y2>> : y1, y2 \in GateYs} : b[2] >= b[4]}
GateColumns == {NoneInt, 2, 3}
GateTexts == SeqsUpTo({"a", "."}, MaxTextLen)

GateContents ==
    {[tables |-> <<TableView(b, c)>>, layouts |-> <<>>] : b \in GateBoxes, c \in GateColumns}
    \cup {[tables |-> <<>>, layouts |-> <<LayoutView("text", b, t)>>] :
            b \in GateBoxes, t \in GateTexts}

GatePageNumbers == {<<0, 1>>, <<1, 0>>, <<0, 2>>}

GateDocs(ps) ==
    \E ns \in GatePageNumbers, c1 \in GateContents, c2 \in GateContents : ps = Doc(ns, <<c1, c2>>)

\* Documents of one page with up to MaxTablesOnPage tables and up to
\* MaxLayoutsOnPage layout blocks, over all boxes with corners on a 3 x 3 grid.
GridBoxes == {b \in {<<x1, y1, x2, y2>> : x1, y1, x2, y2 \in {10, 20, 30}} : b[1] < b[3] /\ b[2] < b[4]}

PageDocs(ps) ==
    \E ts \in SeqsUpTo({TableView(b, 2) : b \in GridBoxes}, MaxTablesOnPage) :
        \E ls \in SeqsUpTo({LayoutView(c, b, <<"a", "b">>) : c \in {"text", "title"}, b \in GridBoxes},
                           MaxLayoutsOnPage) :
            ps = <<Page(0, 100, ts, ls)>>

\* Metadata lists of up to MaxMeta records over the page numbers
\* 1..MaxPageNumber + 1, repetitions and gaps allowed.  id is the identity of
\* the dict object, which tells records of one page apart.
MetaLists(list) ==
    \E ns \in SeqsUpTo(1..(MaxPageNumber + 1), MaxMeta) :
        list = [i \in 1..Len(ns) |-> [id |-> i, page_num |-> ns[i]]]

----------------------------------------------------------------------------
(* Document.detect_multi_page_entities, called once on a Document *)

NoLoop ==
    /\ metadata_list = <<>>
    /\ doc_page_metadata_list = <<>>
    /\ lowest_page_num = EmptyStr
    /\ final_list = <<>>
    /\ iteration = 0

NoDoc ==
    /\ pages = <<>>
    /\ doc_table_metadata_list = <<>>
    /\ doc_paragraph_metadata_list = <<>>
    /\ comparable_pairs_list = [table |-> <<>>, text |-> <<>>]
    /\ final_result = EmptyDict

NoViews ==
    /\ annotations = <<>>
    /\ called = NoneInt
    /\ returned = <<>>

InitDoc ==
    /\ pc = "ready"
    /\ doc_table_metadata_list = <<>>
    /\ doc_paragraph_metadata_list = <<>>
    /\ comparable_pairs_list = [table |-> <<>>, text |-> <<>>]
    /\ final_result = EmptyDict
    /\ NoLoop
    /\ NoViews
    /\ DefaultPage

Init == MainDocs(pages) /\ InitDoc
InitGate == GateDocs(pages) /\ InitDoc
InitPage == PageDocs(pages) /\ InitDoc

DetectMultiPageEntities ==
    /\ pc = "ready"
    /\ pc' = "done"
    /\ doc_table_metadata_list' = get_page_metadata(pages)[1]
    /\ doc_paragraph_metadata_list' = get_page_metadata(pages)[2]
    /\ comparable_pairs_list' =
          [table |-> comparable_pairs(get_page_metadata(pages)[1]),
           text  |-> comparable_pairs(get_page_metadata(pages)[2])]
    /\ final_result' = detect_multi_page_entities(pages)
    /\ UNCHANGED <<pages, loopVars, viewVars, pageVars>>

Next == DetectMultiPageEntities

Spec == Init /\ [][Next]_vars
SpecGate == InitGate /\ [][Next]_vars
SpecPage == InitPage /\ [][Next]_vars

----------------------------------------------------------------------------
(* Document._comparable_pairs, one loop iteration at a time *)

InitPairs ==
    /\ MetaLists(metadata_list)
    /\ pc = "ready"
    /\ doc_page_metadata_list = <<>>
    /\ lowest_page_num = EmptyStr
    /\ final_list = <<>>
    /\ iteration = 0
    /\ NoDoc
    /\ NoViews
    /\ DefaultPage

locals == [list |-> doc_page_metadata_list, lowest |-> lowest_page_num, final |-> final_list]

SetLocals(st) ==
    /\ doc_page_metadata_list' = st.list
    /\ lowest_page_num' = st.lowest
    /\ final_list' = st.final

\* _comparable_pairs up to the head of the for loop
ComparablePairsCall ==
    /\ pc = "ready"
    /\ SetLocals([list |-> metadata_list,
                  lowest |-> get_lowest_page_num(metadata_list),
                  final |-> <<>>])
    /\ iteration' = 0
    /\ pc' = IF metadata_list # <<>> THEN "loop" ELSE "done"
    /\ UNCHANGED <<metadata_list, docVars, viewVars, pageVars>>

InLoop == pc = "loop" /\ iteration < Len(metadata_list)

\* an iteration that finds the record of the next page
LoopPair ==
    /\ InLoop
    /\ IsInt(lowest_page_num)
    /\ get_page_table_data(doc_page_metadata_list, lowest_page_num + 1) # None
    /\ SetLocals(loop_body(locals))
    /\ iteration' = iteration + 1
    /\ UNCHANGED <<pc, metadata_list, docVars, viewVars, pageVars>>

\* an iteration that finds none
LoopDrop ==
    /\ InLoop
    /\ IsInt(lowest_page_num)
    /\ get_page_table_data(doc_page_metadata_list, lowest_page_num + 1) = None
    /\ SetLocals(loop_body(locals))
    /\ iteration' = iteration + 1
    /\ UNCHANGED <<pc, metadata_list, docVars, viewVars, pageVars>>

\* an iteration after the working list has run empty
LoopContinue ==
    /\ InLoop
    /\ ~IsInt(lowest_page_num)
    /\ SetLocals(loop_body(locals))
    /\ iteration' = iteration + 1
    /\ UNCHANGED <<pc, metadata_list, docVars, viewVars, pageVars>>

\* the for loop is exhausted: return final_list
LoopReturn ==
    /\ pc = "loop"
    /\ iteration = Len(metadata_list)
    /\ pc' = "done"
    /\ UNCHANGED <<metadata_list, docVars, loopVars, viewVars, pageVars>>

NextPairs ==
    \/ ComparablePairsCall
    \/ LoopPair
    \/ LoopDrop
    \/ LoopContinue
    \/ LoopReturn

SpecPairs == InitPairs /\ [][NextPairs]_vars

\* the interpreter keeps running the call until it returns
FairPairs == SpecPairs /\ WF_vars(NextPairs)

----------------------------------------------------------------------------
(* Claims about Document *)

InList(r, list) == \E i \in 1..Len(list) : list[i] = r

HasAdjacent(list) ==
    \E i, j \in 1..Len(list) : list[j].page_num = list[i].page_num + 1

MetadataOf(kind) ==
    IF kind = "table" THEN doc_table_metadata_list ELSE doc_paragraph_metadata_list

\* the box of a record, whatever its kind
BoxOf(kind, r) == IF kind = "table" THEN r.table_bbox ELSE r.bbox

\* the geometric gate as the specification states it: the first box starts
\* below the middle of its page and the second ends above the middle of its page
PassesGate(kind, pair) ==
    /\ 2 * BoxOf(kind, pair[1]).y1 > pair[1].page_height
    /\ 2 * BoxOf(kind, pair[2]).y2 < pair[2].page_height

\* the equivalence of a pair as the specification states it
Equivalent(kind, pair) ==
    /\ PassesGate(kind, pair)
    /\ IF kind = "table"
       THEN pair[1].table_column_num = pair[2].table_column_num
       ELSE Len(pair[1].text) >= 2 /\ pair[1].text[Len(pair[1].text)] # "."

\* C1: when _comparable_pairs has returned, every record r of the metadata
\* list for which the list holds a record with the next page number is the
\* first element of an emitted pair, also when several records share r's
\* page number.
C1_EveryRecordWithSuccessorIsPaired ==
    pc = "done" =>
        \A i \in 1..Len(metadata_list) :
            (\E j \in 1..Len(metadata_list) :
                metadata_list[j].page_num = metadata_list[i].page_num + 1)
            => \E k \in 1..Len(final_list) : final_list[k][1] = metadata_list[i]

\* C2: every emitted pair holds two records of the metadata list of its own
\* kind, the second with the page number of the first plus one; a kind with no
\* two records on pages p and p + 1 has no pair and no key in the result.
C2_PairsAreAdjacentPagesOfOneKind ==
    pc = "done" =>
        \A kind \in {"table", "text"} :
            LET list == MetadataOf(kind)
                pairs == comparable_pairs_list[kind]
            IN  /\ \A i \in 1..Len(pairs) :
                      /\ InList(pairs[i][1], list)
                      /\ InList(pairs[i][2], list)
                      /\ pairs[i][2].page_num = pairs[i][1].page_num + 1
                /\ ~HasAdjacent(list) => (pairs = <<>> /\ kind \notin DOMAIN final_result)

\* C2 witness: tables on pages p and p + 1 were paired while the paragraphs,
\* none of them on adjacent pages, gave no pair and no "text" key.
C2_Witness ==
    /\ pc = "done"
    /\ comparable_pairs_list["table"] # <<>>
    /\ Len(doc_paragraph_metadata_list) = 2
    /\ ~HasAdjacent(doc_paragraph_metadata_list)
    /\ "text" \notin DOMAIN final_result

\* C3: a pair of table records that passes the geometric gate is the same
\* table exactly when both carry the same column count; the two tables of a
\* two-page document are then reported under "table", "0", and otherwise no
\* "table" key is reported.
C3_SameTableIffSameColumns ==
    pc = "done" =>
        \A i \in 1..Len(comparable_pairs_list["table"]) :
            LET pair == comparable_pairs_list["table"][i]
                same == pair[1].table_column_num = pair[2].table_column_num
            IN  PassesGate("table", pair) =>
                    /\ (is_same_table(pair) = "True") <=> same
                    /\ same => /\ "table" \in DOMAIN final_result
                               /\ "0" \in DOMAIN final_result["table"]
                               /\ final_result["table"]["0"] = <<pair[1], pair[2]>>
                    /\ ~same => "table" \notin DOMAIN final_result

\* C3 witness: two tables with three columns each, the first in the bottom
\* half of page 1 and the second in the top half of page 2, are reported.
C3_Witness ==
    /\ pc = "done"
    /\ Len(comparable_pairs_list["table"]) = 1
    /\ PassesGate("table", comparable_pairs_list["table"][1])
    /\ comparable_pairs_list["table"][1][1].table_column_num = 3
    /\ comparable_pairs_list["table"][1][2].table_column_num = 3
    /\ "table" \in DOMAIN final_result

\* C4: a pair of paragraph records that passes the geometric gate is the same
\* paragraph exactly when the first text has at least two characters and does
\* not end with a period; it is then reported under "text", "0", and
\* otherwise no "text" key is reported.
C4_SameParagraphIffNoFullStop ==
    pc = "done" =>
        \A i \in 1..Len(comparable_pairs_list["text"]) :
            LET pair == comparable_pairs_list["text"][i]
                text == pair[1].text
                open == Len(text) >= 2 /\ text[Len(text)] # "."
            IN  PassesGate("text", pair) =>
                    /\ (is_same_paragraph(pair) = "True") <=> open
                    /\ open => /\ "text" \in DOMAIN final_result
                               /\ "0" \in DOMAIN final_result["text"]
                               /\ final_result["text"]["0"] = <<pair[1], pair[2]>>
                    /\ ~open => "text" \notin DOMAIN final_result

\* C4 witness: the geometry matches and the first text is a single character
\* other than a period, so nothing is reported.
C4_Witness ==
    /\ pc = "done"
    /\ Len(comparable_pairs_list["text"]) = 1
    /\ PassesGate("text", comparable_pairs_list["text"][1])
    /\ comparable_pairs_list["text"][1][1].text = <<"a">>
    /\ "text" \notin DOMAIN final_result

\* C5: the equivalence test holds only for a pair whose first box starts
\* strictly below 50% of the first page's height and whose second box ends
\* strictly above 50% of the second page's height; no other pair is in the
\* result.
C5_ResultOnlyThroughTheGate ==
    pc = "done" =>
        \A kind \in {"table", "text"} :
            /\ \A i \in 1..Len(comparable_pairs_list[kind]) :
                  LET pair == comparable_pairs_list[kind][i] IN
                  is_same(kind, pair) = "True" => PassesGate(kind, pair)
            /\ kind \in DOMAIN final_result =>
                  \A key \in DOMAIN final_result[kind] :
                      PassesGate(kind, final_result[kind][key])

\* C5 witness: the first table starts exactly at 50% of its page, the second
\* ends in the top half, the column counts agree, and nothing is reported.
C5_Witness ==
    /\ pc = "done"
    /\ Len(comparable_pairs_list["table"]) = 1
    /\ comparable_pairs_list["table"][1][1].table_bbox.y1 = 50
    /\ comparable_pairs_list["table"][1][1].page_height = 100
    /\ comparable_pairs_list["table"][1][2].table_bbox.y2 = 20
    /\ comparable_pairs_list["table"][1][1].table_column_num
         = comparable_pairs_list["table"][1][2].table_column_num
    /\ final_result = EmptyDict

\* C6: _is_close_to_footer(page_height, y) is true exactly when y is strictly
\* greater than 0.8 times page_height, here for the first table of every
\* emitted pair.
C6_FooterIsEightyPercent ==
    pc = "done" =>
        \A i \in 1..Len(comparable_pairs_list["table"]) :
            LET first_page == comparable_pairs_list["table"][i][1] IN
            is_close_to_footer(first_page.page_height, first_page.table_bbox.y1)
                <=> 10 * first_page.table_bbox.y1 > 8 * first_page.page_height

DecimalKeys == <<"0", "1", "2", "3", "4", "5", "6", "7", "8", "9">>

\* C7: for each kind the keys of its map are "0", ..., "k-1", k the number of
\* emitted pairs that are equivalent, the i-th equivalent pair in emission
\* order under the i-th key; the kind is a key of the result exactly when
\* k > 0.
C7_KeysCountTheEqualPairs ==
    pc = "done" =>
        \A kind \in {"table", "text"} :
            LET IsEquivalent(pair) == Equivalent(kind, pair)
                passing == SelectSeq(comparable_pairs_list[kind], IsEquivalent)
                k == Len(passing)
                result == IF kind \in DOMAIN final_result THEN final_result[kind] ELSE EmptyDict
            IN  /\ kind \in DOMAIN final_result <=> k > 0
                /\ DOMAIN result = {DecimalKeys[i] : i \in 1..k}
                /\ \A i \in 1..k : result[DecimalKeys[i]] = <<passing[i][1], passing[i][2]>>

\* C7 witness: three table pairs were emitted, the second is not equivalent,
\* and the result holds the other two under "0" and "1".
C7_Witness ==
    /\ pc = "done"
    /\ Len(comparable_pairs_list["table"]) = 3
    /\ ~Equivalent("table", comparable_pairs_list["table"][2])
    /\ "table" \in DOMAIN final_result
    /\ DOMAIN final_result["table"] = {"0", "1"}

\* a box lies within another, borders included
Within(inner, outer) ==
    /\ outer[1] <= inner[1] /\ inner[3] <= outer[3]
    /\ outer[2] <= inner[2] /\ inner[4] <= outer[4]

\* C8: the paragraph metadata of a page holds, in the order of the layout
\* blocks, one record for each block of category "text" whose box lies within
\* the box of no table of the page, and no other record.
C8_ParagraphRecordIffTextOutsideTables ==
    pc = "done" =>
        LET page == pages[1]
            Qualifies(layout) ==
                /\ layout.category_name = "text"
                /\ \A j \in 1..Len(page.tables) : ~Within(layout.bbox, page.tables[j].bbox)
            blocks == SelectSeq(page.layouts, Qualifies)
        IN  /\ Len(doc_paragraph_metadata_list) = Len(blocks)
            /\ \A i \in 1..Len(blocks) :
                  LET bbox == doc_paragraph_metadata_list[i].bbox IN
                  <<bbox.x1, bbox.y1, bbox.x2, bbox.y2>> = blocks[i].bbox

\* C8 witness: a "text" block starts inside a table and ends outside of it,
\* and has a record.
C8_Witness ==
    /\ pc = "done"
    /\ Len(pages[1].tables) = 1
    /\ pages[1].tables[1].bbox = <<10, 10, 20, 20>>
    /\ Len(pages[1].layouts) = 1
    /\ pages[1].layouts[1].category_name = "text"
    /\ pages[1].layouts[1].bbox = <<10, 10, 30, 30>>
    /\ Len(doc_paragraph_metadata_list) = 1

\* C9: for every metadata list, pairing returns, and when it has returned the
\* working list is empty.
C9_PairingTerminatesWithEmptyList ==
    /\ <>(pc = "done")
    /\ [](pc = "done" => doc_page_metadata_list = <<>>)

\* C9 witness: a list of four records with a repeated page number and a gap
\* has been worked off, with a pair emitted and a record dropped.
C9_Witness ==
    /\ pc = "done"
    /\ Len(metadata_list) = 4
    /\ \E i, j \in 1..4 : i # j /\ metadata_list[i].page_num = metadata_list[j].page_num
    /\ \E i \in 1..4 : metadata_list[i].page_num = 4
    /\ \A i \in 1..4 : metadata_list[i].page_num # 3
    /\ Len(final_list) = 1
    /\ doc_page_metadata_list = <<>>

----------------------------------------------------------------------------
(* Views: words of Layout, Cell and Table *)

\* list.sort(key = ...), less[i][j] being key(s[i]) < key(s[j]): the sort is
\* stable
list_sort(s, less) ==
    LET Position(i) ==
            1 + Cardinality({j \in 1..Len(s) : less[j][i] \/ (~less[i][j] /\ j < i)})
    IN  [p \in 1..Len(s) |-> s[CHOOSE i \in 1..Len(s) : Position(i) = p]]

\* Page.text_container as Page.from_image sets it by default
text_container == "word"

\* the category_names that Table.cells passes to get_annotation
CellCategories ==
    {"cell", "header", "body", "projected_row_header", "spanning", "row_header", "column_header"}

\* the class that IMAGE_ANNOTATION_TO_LAYOUTS gives an annotation
ViewClass(ann) ==
    IF ann.category_name = text_container THEN "Word"
    ELSE IF ann.category_name \in {"table", "table_rotated"} THEN "Table"
    ELSE IF ann.category_name \in {"cell", "projected_row_header", "spanning", "row_header",
                                   "column_header"} THEN "Cell"
    ELSE "Layout"

\* mutant: the annotations that are not active are selected too
get_annotation_of_all(category_names, annotation_ids) ==
    LET Selected(x) ==
            /\ category_names # None => x.category_name \in category_names[1]
            /\ annotation_ids # None => x.annotation_id \in annotation_ids[1]
    IN  SelectSeq(annotations, Selected)

\* Page.get_annotation(category_names, annotation_ids); an argument is None
\* or Some(set)
get_annotation(category_names, annotation_ids) ==
    LET Selected(x) ==
            /\ x.active
            /\ category_names # None => x.category_name \in category_names[1]
            /\ annotation_ids # None => x.annotation_id \in annotation_ids[1]
    IN  SelectSeq(annotations, Selected)

\* Layout.words
layout_words(self) ==
    IF self.category_name # text_container
    THEN get_annotation(Some({text_container}), Some(self.child))
    ELSE <<self>>

\* Table.cells
table_cells(self) == get_annotation(Some(CellCategories), Some(self.child))

\* Table.words
table_words(self) ==
    LET cells == table_cells(self) IN
    IF cells = <<>> THEN layout_words(self)
    ELSE Concat([i \in 1..Len(cells) |-> layout_words(cells[i])])

\* self.words, through the class of self
words(self) == IF ViewClass(self) = "Table" THEN table_words(self) ELSE layout_words(self)

HasReadingOrder(word) == word.reading_order # NoneInt

\* key = lambda x: x.reading_order, compared on the elements of ws
ReadingOrderLess(ws) ==
    [i \in 1..Len(ws) |-> [j \in 1..Len(ws) |-> ws[i].reading_order < ws[j].reading_order]]

\* mutant: the words are not sorted
layout_get_ordered_words_unsorted(self) == SelectSeq(words(self), HasReadingOrder)

\* Layout.get_ordered_words
layout_get_ordered_words(self) ==
    LET words_with_reading_order == SelectSeq(words(self), HasReadingOrder)
    IN  list_sort(words_with_reading_order, ReadingOrderLess(words_with_reading_order))

\* (row_number, column_number) < (row_number, column_number) raises TypeError
\* when the first components that differ are not both numbers
KeyRaises(a, b) ==
    IF a.row_number # b.row_number
    THEN a.row_number = NoneInt \/ b.row_number = NoneInt
    ELSE IF a.column_number # b.column_number
         THEN a.column_number = NoneInt \/ b.column_number = NoneInt
         ELSE FALSE

KeyLess(a, b) ==
    \/ a.row_number < b.row_number
    \/ (a.row_number = b.row_number /\ a.column_number < b.column_number)

\* cells.sort(key = (row_number, column_number)) raises TypeError.  The sort
\* of a list of up to three elements compares every two neighbours, and two
\* other elements only when no comparison of neighbours raises and then
\* without raising, so it raises exactly when some two elements do.
SortRaises(cells) == \E i, j \in 1..Len(cells) : KeyRaises(cells[i], cells[j])

\* Table.rows and Table.columns
table_rows(self) == get_annotation(Some({"row"}), Some(self.child))
table_columns(self) == get_annotation(Some({"column"}), Some(self.child))

\* Page.words
page_words == get_annotation(Some({text_container}), None)

\* mutant: the cells are not sorted
table_get_ordered_words_unsorted(self) ==
    LET cells == table_cells(self) IN
    IF ~SortRaises(cells)
    THEN Concat([i \in 1..Len(cells) |-> layout_get_ordered_words(cells[i])])
    ELSE layout_get_ordered_words(self)

\* Table.get_ordered_words
table_get_ordered_words(self) ==
    LET cells == table_cells(self) IN
    IF ~SortRaises(cells)
    THEN LET sorted == list_sort(cells, [i \in 1..Len(cells) |->
                                                [j \in 1..Len(cells) |-> KeyLess(cells[i], cells[j])]]) IN
         Concat([i \in 1..Len(sorted) |-> layout_get_ordered_words(sorted[i])])
    ELSE layout_get_ordered_words(self)

\* self.get_ordered_words(), through the class of self
get_ordered_words(self) ==
    IF ViewClass(self) = "Table" THEN table_get_ordered_words(self)
    ELSE layout_get_ordered_words(self)

----------------------------------------------------------------------------
(* Views: text of Layout and Cell, csv and text of Table *)

\* the outcome of a call: the value returned, or the exception raised
Return(v) == [raise |-> "", value |-> v]
Raise(e) == [raise |-> e, value |-> <<>>]

RECURSIVE Join(_, _)
\* sep.join(strs); a str is a sequence of characters
Join(sep, strs) ==
    IF strs = <<>> THEN <<>>
    ELSE IF Len(strs) = 1 THEN strs[1]
    ELSE strs[1] \o sep \o Join(sep, Tail(strs))

\* self.<item> for a registered name whose value is a number: the value of the
\* sub category, or None when the annotation has no such sub category
attribute(self, item) == IF item \in DOMAIN self THEN self[item] ELSE NoneInt

\* Layout.text
layout_text(self) ==
    LET ordered == get_ordered_words(self)
    IN  Join(<<" ">>, [i \in 1..Len(ordered) |-> ordered[i].characters])

\* lst[i] of Python for a list of length n: the position counted from 1, or 0
\* when it raises IndexError
PyIndex(i, n) ==
    IF 0 <= i /\ i < n THEN i + 1
    ELSE IF 0 - n <= i /\ i < 0 THEN n + i + 1
    ELSE 0

\* what the loop body of Table.csv raises for a cell, "" when nothing
csv_cell_raises(table_list, cell) ==
    IF cell.row_number = NoneInt THEN "TypeError"
    ELSE IF PyIndex(cell.row_number - 1, Len(table_list)) = 0 THEN "IndexError"
    ELSE IF cell.column_number = NoneInt THEN "TypeError"
    ELSE IF PyIndex(cell.column_number - 1,
                    Len(table_list[PyIndex(cell.row_number - 1, Len(table_list))])) = 0
         THEN "IndexError"
    ELSE ""

RECURSIVE csv_fill(_, _)
\* the for loop of Table.csv over the cells that are left
csv_fill(table_list, cells) ==
    IF cells = <<>> THEN Return(table_list)
    ELSE LET cell == Head(cells)
             raised == csv_cell_raises(table_list, cell)
         IN  IF raised # "" THEN Raise(raised)
             ELSE LET r == PyIndex(cell.row_number - 1, Len(table_list))
                      c == PyIndex(cell.column_number - 1, Len(table_list[r]))
                  IN  csv_fill([table_list EXCEPT ![r][c] = @ \o layout_text(cell) \o <<" ">>],
                               Tail(cells))

\* mutant: a cell fills every tile from its anchor to the end of its row
table_csv_spread(self) ==
    LET rows == attribute(self, "number_of_rows")
        columns == attribute(self, "number_of_columns")
        cells == table_cells(self)
        Covers(cell, r, c) ==
            /\ cell.row_number = r
            /\ cell.column_number <= c
            /\ c < cell.column_number + attribute(cell, "column_span")
    IN  IF rows = NoneInt \/ columns = NoneInt THEN Raise("TypeError")
        ELSE IF csv_fill([r \in 1..rows |-> [c \in 1..columns |-> <<>>]], cells).raise # ""
        THEN csv_fill([r \in 1..rows |-> [c \in 1..columns |-> <<>>]], cells)
        ELSE Return([r \in 1..rows |-> [c \in 1..columns |->
                Concat([i \in 1..Len(cells) |->
                    IF Covers(cells[i], r, c) THEN layout_text(cells[i]) \o <<" ">> ELSE <<>>])]])

\* Table.csv
table_csv(self) ==
    LET rows == attribute(self, "number_of_rows")
        columns == attribute(self, "number_of_columns")
    IN  IF rows = NoneInt THEN Raise("TypeError")
        ELSE IF rows > 0 /\ columns = NoneInt THEN Raise("TypeError")
        ELSE csv_fill([r \in 1..rows |-> [c \in 1..columns |-> <<>>]], table_cells(self))

\* Table.__str__
table_str(self) ==
    LET csv == table_csv(self)
    IN  IF csv.raise # "" THEN csv
        ELSE Return(Join(<<" ">>, [r \in 1..Len(csv.value) |->
                                      Join(<<" ">>, csv.value[r] \o <<(<<"\n">>)>>)]))

\* Table.text
table_text(self) ==
    LET out == table_str(self)
    IN  IF out.raise \in {"TypeError", "AnnotationError"} THEN Return(layout_text(self)) ELSE out

\* annotation_id as the str it is; the ids of the model are numbers below 10
IdStr(annotation_id) == <<"#", Digit[annotation_id + 1]>>

\* html_list.index(x) counted from 1, or 0 when it raises ValueError
ListIndex(html_list, x) ==
    IF \E i \in 1..Len(html_list) : html_list[i] = x
    THEN CHOOSE i \in 1..Len(html_list) :
            html_list[i] = x /\ \A j \in 1..(i - 1) : html_list[j] # x
    ELSE 0

\* mutant: the text of the cell is inserted, the id is not popped
html_replace_insert_only(html_list, html_index, cell) ==
    SubSeq(html_list, 1, html_index - 1) \o <<layout_text(cell)>>
        \o SubSeq(html_list, html_index, Len(html_list))

\* html_list.pop(html_index); html_list.insert(html_index, cell.text)
html_replace(html_list, html_index, cell) ==
    SubSeq(html_list, 1, html_index - 1) \o <<layout_text(cell)>>
        \o SubSeq(html_list, html_index + 1, Len(html_list))

RECURSIVE html_fill_until_missing(_, _, _)
\* mutant: the loop ends at the first cell that is not in the template
html_fill_until_missing(html_list, warnings, cells) ==
    IF cells = <<>> THEN [html_list |-> html_list, warnings |-> warnings]
    ELSE LET cell == Head(cells)
             html_index == ListIndex(html_list, IdStr(cell.annotation_id))
         IN  IF html_index = 0
             THEN [html_list |-> html_list, warnings |-> Append(warnings, cell.annotation_id)]
             ELSE html_fill_until_missing(html_replace(html_list, html_index, cell), warnings,
                                          Tail(cells))

RECURSIVE html_fill(_, _, _)
\* the for loop of Table.html over the cells that are left; warnings are the
\* annotation ids that logger.warning was called with
html_fill(html_list, warnings, cells) ==
    IF cells = <<>> THEN [html_list |-> html_list, warnings |-> warnings]
    ELSE LET cell == Head(cells)
             html_index == ListIndex(html_list, IdStr(cell.annotation_id))
         IN  IF html_index = 0
             THEN html_fill(html_list, Append(warnings, cell.annotation_id), Tail(cells))
             ELSE html_fill(html_replace(html_list, html_index, cell), warnings, Tail(cells))

\* the copy of the template that Table.html starts from
html_template(self) ==
    IF self.html.present /\ self.html.container /\ self.html.is_list THEN self.html.value
    ELSE <<>>

\* Table.html: the string returned, with the final html_list and the warnings
table_html(self) ==
    LET filled == html_fill(html_template(self), <<>>, table_cells(self))
    IN  Return([html |-> Join(<<>>, filled.html_list), html_list |-> filled.html_list,
                warnings |-> filled.warnings])

\* self.text, through the class of self
text(self) == IF ViewClass(self) = "Table" THEN table_text(self) ELSE Return(layout_text(self))

\* Layout.text_
layout_text_(self) ==
    LET ordered == get_ordered_words(self)
    IN  [text |-> Join(<<" ">>, [i \in 1..Len(ordered) |-> ordered[i].characters]),
         text_list |-> [i \in 1..Len(ordered) |-> ordered[i].characters],
         annotation_ids |-> [i \in 1..Len(ordered) |-> ordered[i].annotation_id]]

\* Table.text_
table_text_(self) ==
    LET cells == table_cells(self) IN
    IF cells = <<>> THEN layout_text_(self)
    ELSE [text |-> Join(<<" ">>, [i \in 1..Len(cells) |-> layout_text(cells[i])]),
          text_list |-> Concat([i \in 1..Len(cells) |-> layout_text_(cells[i]).text_list]),
          annotation_ids |-> Concat([i \in 1..Len(cells) |-> layout_text_(cells[i]).annotation_ids])]

\* self.text_, through the class of self
text_(self) == IF ViewClass(self) = "Table" THEN table_text_(self) ELSE layout_text_(self)

----------------------------------------------------------------------------
(* The annotations the view specification starts from *)

Annotation(annotation_id, category_name, reading_order, characters, row_number, column_number, child) ==
    [annotation_id |-> annotation_id, category_name |-> category_name, active |-> TRUE,
     reading_order |-> reading_order, characters |-> characters,
     row_number |-> row_number, column_number |-> column_number, child |-> child]

ReadingOrders == {NoneInt, 1, 2}
CellPositions == {<<1, 2>>, <<2, 1>>, <<NoneInt, NoneInt>>}
Letters == <<"a", "b", "c", "d", "e", "f">>

\* One block (annotation 1), a "text" layout or a table, the cells of the
\* table (annotations 2..c+1) and the words (the annotations after them).
\* owner[k] says whose child word k is: 0 nobody's, 1 the block's, i + 1 that
\* of cell i.
BlockAnnotations(category_name, block_order, c, position, n, reading_order, owner) ==
    LET block == Annotation(1, category_name, block_order, <<>>, NoneInt, NoneInt,
                            {i + 1 : i \in 1..c} \cup {c + 1 + k : k \in {k \in 1..n : owner[k] = 1}})
        cells == [i \in 1..c |->
                    Annotation(i + 1, "cell", NoneInt, <<>>, position[i][1], position[i][2],
                               {c + 1 + k : k \in {k \in 1..n : owner[k] = i + 1}})]
        ws == [k \in 1..n |->
                    Annotation(c + 1 + k, "word", reading_order[k], <<Letters[k]>>,
                               NoneInt, NoneInt, {})]
    IN  <<block>> \o cells \o ws

WordStores(anns) ==
    \E cat \in {"text", "table"}, block_order \in {NoneInt, 1} :
        \E c \in IF cat = "table" THEN 0..MaxCells ELSE {0}, n \in 0..MaxWords :
            \E position \in [1..c -> CellPositions],
               reading_order \in [1..n -> ReadingOrders],
               owner \in [1..n -> 0..(c + 1)] :
                anns = BlockAnnotations(cat, block_order, c, position, n, reading_order, owner)

InitWords ==
    /\ WordStores(annotations)
    /\ pc = "ready"
    /\ called = NoneInt
    /\ returned = <<>>
    /\ NoDoc
    /\ NoLoop
    /\ DefaultPage

\* view.get_ordered_words() on any Layout, Cell or Table view of the page
GetOrderedWords ==
    /\ pc = "ready"
    /\ \E i \in 1..Len(annotations) :
          /\ ViewClass(annotations[i]) \in {"Layout", "Cell", "Table"}
          /\ called' = annotations[i].annotation_id
          /\ returned' = get_ordered_words(annotations[i])
    /\ pc' = "done"
    /\ UNCHANGED <<annotations, docVars, loopVars, pageVars>>

\* view.words on any Layout, Cell or Table view of the page
Words ==
    /\ pc = "ready"
    /\ \E i \in 1..Len(annotations) :
          /\ ViewClass(annotations[i]) \in {"Layout", "Cell", "Table"}
          /\ called' = annotations[i].annotation_id
          /\ returned' = words(annotations[i])
    /\ pc' = "words"
    /\ UNCHANGED <<annotations, docVars, loopVars, pageVars>>

\* view.text on any Layout, Cell or Table view of the page
Text ==
    /\ pc = "ready"
    /\ \E i \in 1..Len(annotations) :
          /\ ViewClass(annotations[i]) \in {"Layout", "Cell", "Table"}
          /\ called' = annotations[i].annotation_id
          /\ returned' = text(annotations[i])
    /\ pc' = "text"
    /\ UNCHANGED <<annotations, docVars, loopVars, pageVars>>

\* view.text_ on any Layout, Cell or Table view of the page
Text_ ==
    /\ pc = "ready"
    /\ \E i \in 1..Len(annotations) :
          /\ ViewClass(annotations[i]) \in {"Layout", "Cell", "Table"}
          /\ called' = annotations[i].annotation_id
          /\ returned' = text_(annotations[i])
    /\ pc' = "text_"
    /\ UNCHANGED <<annotations, docVars, loopVars, pageVars>>

NextWords == GetOrderedWords \/ Words \/ Text \/ Text_

SpecWords == InitWords /\ [][NextWords]_vars

----------------------------------------------------------------------------
(* Table.csv and Table.text on a table with row and column numbers *)

GridCounts == {NoneInt, 1, 2}
GridPositions == {<<1, 1>>, <<1, 2>>, <<2, 1>>, <<0, 1>>, <<3, 1>>, <<NoneInt, 1>>, <<1, NoneInt>>}
ColumnSpans == {1, 2}

\* One table (annotation 1) with its number of rows and columns, its cells
\* (annotations 2..c+1) with their row and column number and column span, and
\* one word with a reading order in every cell that has_word names; the word
\* of cell i is annotation c + 1 + i.
GridAnnotations(rows, columns, c, position, span, has_word) ==
    LET table == [number_of_rows |-> rows, number_of_columns |-> columns]
                 @@ Annotation(1, "table", 1, <<>>, NoneInt, NoneInt, {i + 1 : i \in 1..c})
        cells == [i \in 1..c |->
                    [column_span |-> span[i]]
                    @@ Annotation(i + 1, "cell", NoneInt, <<>>, position[i][1], position[i][2],
                                  IF i \in has_word THEN {c + 1 + i} ELSE {})]
        with_word == SelectSeq([i \in 1..c |-> i], LAMBDA i : i \in has_word)
        ws == [k \in 1..Len(with_word) |->
                    Annotation(c + 1 + with_word[k], "word", 1, <<Letters[with_word[k]]>>,
                               NoneInt, NoneInt, {})]
    IN  <<table>> \o cells \o ws

GridStores(anns) ==
    \E rows \in GridCounts, columns \in GridCounts, c \in 0..MaxCells :
        \E position \in [1..c -> GridPositions], span \in [1..c -> ColumnSpans],
           has_word \in SUBSET (1..c) :
            anns = GridAnnotations(rows, columns, c, position, span, has_word)

InitTable ==
    /\ GridStores(annotations)
    /\ pc = "ready"
    /\ called = NoneInt
    /\ returned = <<>>
    /\ NoDoc
    /\ NoLoop
    /\ DefaultPage

\* table.csv on any Table view of the page
Csv ==
    /\ pc = "ready"
    /\ \E i \in 1..Len(annotations) :
          /\ ViewClass(annotations[i]) = "Table"
          /\ called' = annotations[i].annotation_id
          /\ returned' = table_csv(annotations[i])
    /\ pc' = "csv"
    /\ UNCHANGED <<annotations, docVars, loopVars, pageVars>>

NextTable == Csv \/ Text

SpecTable == InitTable /\ [][NextTable]_vars

----------------------------------------------------------------------------
(* Table.html on a table with an html sub category *)

\* a literal markup entry of a template
Markup == <<"<">>
\* the id of no annotation of the page
ForeignId == 9

\* no entry that is the id of a cell occurs twice: the template is produced
\* upstream with one placeholder for a cell
OncePerCell(template, c) ==
    \A i, j \in 1..Len(template) :
        (template[i] = template[j] /\ template[i] \in {IdStr(k + 1) : k \in 1..c}) => i = j

\* the html sub category of a table: none, a category that is no container,
\* a container whose value is no list (the value is not read then), or a
\* container with a template list
HtmlSubCategories(c) ==
    {[present |-> FALSE, container |-> FALSE, is_list |-> FALSE, value |-> <<>>],
     [present |-> TRUE, container |-> FALSE, is_list |-> FALSE, value |-> <<>>],
     [present |-> TRUE, container |-> TRUE, is_list |-> FALSE, value |-> <<>>]}
    \cup {[present |-> TRUE, container |-> TRUE, is_list |-> TRUE, value |-> t] :
            t \in {t \in SeqsUpTo({Markup, IdStr(ForeignId)} \cup {IdStr(k + 1) : k \in 1..c},
                                  MaxTemplate) : OncePerCell(t, c)}}

\* One table (annotation 1) with its html sub category and its cells
\* (annotations 2..c+1); the cells that has_word names hold one word each.
HtmlAnnotations(html, c, has_word) ==
    LET grid == GridAnnotations(NoneInt, NoneInt, c, [i \in 1..c |-> <<1, i>>],
                                [i \in 1..c |-> 1], has_word)
    IN  [grid EXCEPT ![1] = [html |-> html] @@ @]

HtmlStores(anns) ==
    \E c \in 0..MaxCells :
        \E html \in HtmlSubCategories(c), has_word \in SUBSET (1..c) :
            anns = HtmlAnnotations(html, c, has_word)

InitHtml ==
    /\ HtmlStores(annotations)
    /\ pc = "ready"
    /\ called = NoneInt
    /\ returned = <<>>
    /\ NoDoc
    /\ NoLoop
    /\ DefaultPage

\* table.html on any Table view of the page
Html ==
    /\ pc = "ready"
    /\ \E i \in 1..Len(annotations) :
          /\ ViewClass(annotations[i]) = "Table"
          /\ called' = annotations[i].annotation_id
          /\ returned' = table_html(annotations[i])
    /\ pc' = "html"
    /\ UNCHANGED <<annotations, docVars, loopVars, pageVars>>

NextHtml == Html

SpecHtml == InitHtml /\ [][NextHtml]_vars

----------------------------------------------------------------------------
(* Page: layouts, tables, chunks and get_layout_context *)

\* Page.document_id, Page.image_id and Page.page_number
PageInfo == [document_id |-> "doc", image_id |-> "img", page_number |-> 0]

\* Page.layouts
layouts == get_annotation(Some(Range(floating_text_block_categories)), None)

\* Page.tables
tables == get_annotation(Some({"table"}), None)

\* Page._order(block), for the list that the attribute named block holds
order(block) ==
    LET blocks_with_order == SelectSeq(block, HasReadingOrder)
    IN  list_sort(blocks_with_order, ReadingOrderLess(blocks_with_order))

\* if table.reading_order: None and 0 are false
TruthyReadingOrder(table) == table.reading_order # NoneInt /\ table.reading_order # 0

\* mutant: the tables are not appended
chunks_without_tables ==
    LET block_with_order == order(layouts)
    IN  Return([i \in 1..Len(block_with_order) |->
                <<PageInfo.document_id, PageInfo.image_id, PageInfo.page_number,
                  block_with_order[i].annotation_id, block_with_order[i].reading_order,
                  block_with_order[i].category_name, text(block_with_order[i]).value>>])

\* Page.chunks; chunk.text raises what the text of the first chunk that
\* raises does
chunks ==
    LET block_with_order == order(layouts) \o SelectSeq(tables, TruthyReadingOrder)
        Raises(i) == text(block_with_order[i]).raise # ""
    IN  IF \E i \in 1..Len(block_with_order) : Raises(i)
        THEN text(block_with_order[CHOOSE i \in 1..Len(block_with_order) :
                                      Raises(i) /\ \A j \in 1..(i - 1) : ~Raises(j)])
        ELSE Return([i \in 1..Len(block_with_order) |->
                <<PageInfo.document_id, PageInfo.image_id, PageInfo.page_number,
                  block_with_order[i].annotation_id, block_with_order[i].reading_order,
                  block_with_order[i].category_name, text(block_with_order[i]).value>>])

\* block_with_order[max(0, position - context_size) :
\*                  min(position + context_size + 1, len(block_with_order))],
\* position counted from 0
context_slice(block_with_order, position, context_size) ==
    LET Max(a, b) == IF a >= b THEN a ELSE b
        lower == Max(0, position - context_size)
        upper == -Max(-(position + context_size + 1), -Len(block_with_order))
    IN  SubSeq(block_with_order, lower + 1, upper)

\* mutant: the category of the annotation is not tested
get_layout_context_any_category(annotation_id, context_size) ==
    LET anns == get_annotation(None, Some({annotation_id}))
        block_with_order == order(layouts)
    IN  IF anns = <<>> THEN Raise("IndexError")
        ELSE IF ListIndex(block_with_order, anns[1]) = 0 THEN Raise("ValueError")
        ELSE Return(context_slice(block_with_order, ListIndex(block_with_order, anns[1]) - 1,
                                  context_size))

\* Page.get_layout_context
get_layout_context(annotation_id, context_size) ==
    LET anns == get_annotation(None, Some({annotation_id}))
        block_with_order == order(layouts)
    IN  IF anns = <<>> THEN Raise("IndexError")
        ELSE IF anns[1].category_name \notin Range(floating_text_block_categories)
        THEN Raise("ImageError")
        ELSE IF ListIndex(block_with_order, anns[1]) = 0 THEN Raise("ValueError")
        ELSE Return(context_slice(block_with_order, ListIndex(block_with_order, anns[1]) - 1,
                                  context_size))

BlockCategories == {"text", "title", "table", "row"}
BlockReadingOrders == {NoneInt, 0, 1, 2}

\* A page of up to MaxBlocks top level annotations without children:
\* layout blocks, tables and rows, with or without a reading order.
PageStores(anns) ==
    \E n \in 0..MaxBlocks :
        \E category \in [1..n -> BlockCategories], reading_order \in [1..n -> BlockReadingOrders] :
            anns = [i \in 1..n |->
                        Annotation(i, category[i], reading_order[i], <<>>, NoneInt, NoneInt, {})]

InitChunks ==
    /\ PageStores(annotations)
    /\ pc = "ready"
    /\ called = NoneInt
    /\ returned = <<>>
    /\ NoDoc
    /\ NoLoop
    /\ DefaultPage

\* page.chunks
Chunks ==
    /\ pc = "ready"
    /\ called' = NoneInt
    /\ returned' = chunks
    /\ pc' = "chunks"
    /\ UNCHANGED <<annotations, docVars, loopVars, pageVars>>

\* page.get_layout_context(annotation_id, context_size), for the id of any
\* annotation of the page or an id that the page does not hold
GetLayoutContext ==
    /\ pc = "ready"
    /\ \E annotation_id \in {annotations[i].annotation_id : i \in 1..Len(annotations)}
                              \cup {ForeignId},
          context_size \in 0..MaxContext :
          /\ called' = <<annotation_id, context_size>>
          /\ returned' = get_layout_context(annotation_id, context_size)
    /\ pc' = "context"
    /\ UNCHANGED <<annotations, docVars, loopVars, pageVars>>

NextChunks == Chunks \/ GetLayoutContext

SpecChunks == InitChunks /\ [][NextChunks]_vars

----------------------------------------------------------------------------
(* ImageAnnotationBaseView.__getattr__: sub categories and summary *)

\* what an attribute read returns: a str, an int or None
PyStr(s) == [type |-> "str", str |-> s, int |-> 0]
PyInt(i) == [type |-> "int", str |-> "", int |-> i]
PyNone == [type |-> "None", str |-> "", int |-> 0]

\* self.image.summary.sub_categories, the empty dict when self.image or
\* self.image.summary is None
summary_sub_categories(self) ==
    IF self.image.is_none \/ self.image.summary_is_none THEN EmptyDict
    ELSE self.image.summary_sub_categories

\* ImageAnnotationBaseView.get_attribute_names
get_attribute_names(self) ==
    {"bbox", "np_image"} \cup DOMAIN self.sub_categories \cup DOMAIN summary_sub_categories(self)

\* the three returns for a sub category that was found
resolve(item, sub_cat) ==
    IF item # sub_cat.category_name THEN PyStr(sub_cat.category_name)
    ELSE IF sub_cat.container THEN PyStr(sub_cat.value)
    ELSE PyInt(sub_cat.category_id)

\* mutant: every name is taken as registered
getattr_unregistered(self, item) ==
    IF item \in DOMAIN self.sub_categories
    THEN Return(resolve(item, self.sub_categories[item]))
    ELSE IF item \in DOMAIN summary_sub_categories(self)
    THEN Return(resolve(item, summary_sub_categories(self)[item]))
    ELSE Return(PyNone)

\* mutant: the summary is looked at before the sub categories
getattr_summary_first(self, item) ==
    IF item \notin get_attribute_names(self) THEN Raise("AnnotationError")
    ELSE IF item \in DOMAIN summary_sub_categories(self)
    THEN Return(resolve(item, summary_sub_categories(self)[item]))
    ELSE IF item \in DOMAIN self.sub_categories
    THEN Return(resolve(item, self.sub_categories[item]))
    ELSE Return(PyNone)

\* ImageAnnotationBaseView.__getattr__(item)
getattr(self, item) ==
    IF item \notin get_attribute_names(self) THEN Raise("AnnotationError")
    ELSE IF item \in DOMAIN self.sub_categories
    THEN Return(resolve(item, self.sub_categories[item]))
    ELSE IF item \in DOMAIN summary_sub_categories(self)
    THEN Return(resolve(item, summary_sub_categories(self)[item]))
    ELSE Return(PyNone)

\* keys of sub categories, and the names that are read: the keys, a
\* name of the base class that no property defines, and a name that no class
\* knows ("bbox" is a property and never reaches __getattr__)
SubCategoryKeys == {"token_tag", "document_type"}
Items == SubCategoryKeys \cup {"np_image", "unknown"}

\* CategoryAnnotation and ContainerAnnotation under the key: the category
\* name is the key or another name
SubCategories(key) ==
    {[category_name |-> name, container |-> container, value |-> value, category_id |-> id] :
        name \in {key, "other"}, container \in BOOLEAN, value \in {"a", "b"}, id \in {1, 2}}

\* a plain category has no value, and of a container only the value is read
Canonical(sub_cat) == IF sub_cat.container THEN sub_cat.category_id = 1 ELSE sub_cat.value = "a"

\* the dicts from the keys to a sub category
Dicts(keys) ==
    {d \in [keys -> UNION {SubCategories(k) : k \in SubCategoryKeys}] :
        \A k \in keys : d[k] \in SubCategories(k) /\ Canonical(d[k])}

\* A view with sub categories under any of the keys, whose image is None or
\* has no summary or has a summary with sub categories under any of the keys.
AttrStores(anns) ==
    \E is_none \in BOOLEAN, summary_is_none \in BOOLEAN :
        \E direct_keys \in SUBSET SubCategoryKeys, summary_keys \in SUBSET SubCategoryKeys :
            \E direct \in Dicts(direct_keys), summary \in Dicts(summary_keys) :
                /\ is_none => summary_is_none
                /\ summary_is_none => summary_keys = {}
                /\ anns = <<[annotation_id |-> 1, active |-> TRUE, sub_categories |-> direct,
                             image |-> [is_none |-> is_none, summary_is_none |-> summary_is_none,
                                        summary_sub_categories |-> summary]]>>

InitAttr ==
    /\ AttrStores(annotations)
    /\ pc = "ready"
    /\ called = NoneInt
    /\ returned = <<>>
    /\ NoDoc
    /\ NoLoop
    /\ DefaultPage

\* view.<item> for a name that __getattr__ gets
GetAttr ==
    /\ pc = "ready"
    /\ \E item \in Items :
          /\ called' = item
          /\ returned' = getattr(annotations[1], item)
    /\ pc' = "getattr"
    /\ UNCHANGED <<annotations, docVars, loopVars, pageVars>>

NextAttr == GetAttr

SpecAttr == InitAttr /\ [][NextAttr]_vars

----------------------------------------------------------------------------
(* ann_obj_view_factory: the class of the view of an annotation *)

\* the members of LayoutType and CellType that the views name
LayoutType ==
    {"word", "line", "text", "title", "figure", "list", "table", "table_rotated", "cell", "row",
     "column"}
CellType == {"header", "body", "projected_row_header", "spanning", "row_header", "column_header"}

\* IMAGE_ANNOTATION_TO_LAYOUTS
IMAGE_ANNOTATION_TO_LAYOUTS ==
    [i \in LayoutType \cup {"projected_row_header", "spanning", "row_header", "column_header"} |->
        IF i \in {"table", "table_rotated"} THEN "Table"
        ELSE IF i = "word" THEN "Word"
        ELSE IF i \in {"cell", "projected_row_header", "spanning", "row_header", "column_header"}
        THEN "Cell"
        ELSE "Layout"]

\* mutant: the text container is not looked at
ann_obj_view_factory_by_table(category_name, container) ==
    IF category_name \in DOMAIN IMAGE_ANNOTATION_TO_LAYOUTS
    THEN Return(IMAGE_ANNOTATION_TO_LAYOUTS[category_name])
    ELSE Raise("KeyError")

\* ann_obj_view_factory(annotation, text_container): the class of the view,
\* KeyError for a category that is no key of IMAGE_ANNOTATION_TO_LAYOUTS
ann_obj_view_factory(category_name, container) ==
    IF category_name = container THEN Return(IMAGE_ANNOTATION_TO_LAYOUTS["word"])
    ELSE IF category_name \in DOMAIN IMAGE_ANNOTATION_TO_LAYOUTS
    THEN Return(IMAGE_ANNOTATION_TO_LAYOUTS[category_name])
    ELSE Raise("KeyError")

\* the categories of annotations and of text containers: the members of the
\* two enums and a category of another enum
FactoryCategories == LayoutType \cup CellType \cup {"token_tag"}

\* one annotation of any category
FactoryStores(anns) ==
    \E category_name \in FactoryCategories :
        anns = <<Annotation(1, category_name, NoneInt, <<>>, NoneInt, NoneInt, {})>>

InitFactory ==
    /\ FactoryStores(annotations)
    /\ pc = "ready"
    /\ called = NoneInt
    /\ returned = <<>>
    /\ NoDoc
    /\ NoLoop
    /\ DefaultPage

\* ann_obj_view_factory(annotation, text_container) for any text container
Factory ==
    /\ pc = "ready"
    /\ \E container \in FactoryCategories :
          /\ called' = <<annotations[1].annotation_id, container>>
          /\ returned' = ann_obj_view_factory(annotations[1].category_name, container)
    /\ pc' = "factory"
    /\ UNCHANGED <<annotations, docVars, loopVars, pageVars>>

NextFactory == Factory

SpecFactory == InitFactory /\ [][NextFactory]_vars

----------------------------------------------------------------------------
(* Page.from_image on an image whose annotations hold images: base_page *)

\* The views that Page.from_image(image_orig, ..., base_page) makes, those of
\* the pages of nested images included.  image_orig is the list of its
\* annotations, a page is named by the path of the annotation whose image it
\* was made from (the page of the first call by the empty path), a view by
\* the path of its annotation, and base_page is None or Some(page).
RECURSIVE from_image(_, _, _)
from_image(image_orig, page, base_page) ==
    Concat([i \in 1..Len(image_orig) |->
        <<[path |-> Append(page, i),
           category_name |-> image_orig[i].category_name,
           base_page |-> IF base_page # None THEN base_page[1] ELSE page]>>
        \o (IF image_orig[i].image # None
            THEN from_image(image_orig[i].image[1], Append(page, i), Some(page))
            ELSE <<>>)])

\* The images with one or two annotations, each a text block or a table with
\* an image of its own, nested at most depth deep.
RECURSIVE Images(_)
Images(depth) ==
    LET Anns == {[category_name |-> "text", image |-> None]}
                \cup (IF depth = 0 THEN {}
                      ELSE {[category_name |-> "table", image |-> Some(image)] :
                                image \in Images(depth - 1)})
    IN  {<<a>> : a \in Anns} \cup {<<a, b>> : a \in Anns, b \in Anns}

InitNested ==
    /\ annotations \in Images(MaxDepth)
    /\ pc = "ready"
    /\ called = NoneInt
    /\ returned = <<>>
    /\ NoDoc
    /\ NoLoop
    /\ DefaultPage

\* Page.from_image(image_orig) as a caller calls it, without base_page
FromImage ==
    /\ pc = "ready"
    /\ called' = NoneInt
    /\ returned' = from_image(annotations, <<>>, None)
    /\ pc' = "from_image"
    /\ UNCHANGED <<annotations, docVars, loopVars, pageVars>>

NextNested == FromImage

SpecNested == InitNested /\ [][NextNested]_vars

----------------------------------------------------------------------------
(* Page.from_image called twice by one caller: the categories and the
   outputs of the pages *)

\* Page._make_text(line_break = True), which is Page.text; block.text raises
\* what the text of the first block that raises does
make_text ==
    LET block_with_order == order(layouts)
        Raises(i) == text(block_with_order[i]).raise # ""
    IN  IF \E i \in 1..Len(block_with_order) : Raises(i)
        THEN text(block_with_order[CHOOSE i \in 1..Len(block_with_order) :
                                      Raises(i) /\ \A j \in 1..(i - 1) : ~Raises(j)])
        ELSE Return(Concat([i \in 1..Len(block_with_order) |->
                                text(block_with_order[i]).value \o <<"\n">>]))

\* mutant: the page keeps a copy of the list taken before line is appended
\* for include_residual_text_container, and the list itself gets line
from_image_categories_copied_first(categories, include_residual_text_container, has_image) ==
    LET given == categories # None /\ categories[1] # <<>>
        start == IF given THEN categories[1] ELSE IMAGE_DEFAULTS.floating_text_block_categories
        own == IF include_residual_text_container /\ "line" \notin Range(start)
               THEN Append(start, "line") ELSE start
    IN  [page |-> IF given THEN start ELSE own,
         caller |-> IF given THEN Some(own) ELSE categories]

\* What Page.from_image does with floating_text_block_categories: page is the
\* list of the page it returns, caller the list object of the caller after
\* the call.  A list that is given and not empty is used itself, otherwise a
\* copy of the default; line is appended for
\* include_residual_text_container, and by the call for the image of an
\* annotation, which gets the same list and no
\* include_residual_text_container (True by default).
from_image_categories(categories, include_residual_text_container, has_image) ==
    LET given == categories # None /\ categories[1] # <<>>
        start == IF given THEN categories[1] ELSE IMAGE_DEFAULTS.floating_text_block_categories
        own == IF include_residual_text_container /\ "line" \notin Range(start)
               THEN Append(start, "line") ELSE start
        after_images == IF has_image /\ "line" \notin Range(own) THEN Append(own, "line") ELSE own
    IN  [page |-> after_images, caller |-> IF given THEN Some(after_images) ELSE categories]

\* the lists a caller hands over
CallerCategories ==
    {None, Some(<<>>), Some(<<"text">>), Some(<<"text", "line">>), Some(<<"table", "text">>)}

\* A text block (annotation 1), a line (2) and a table of one row and one
\* column (3) with one cell (4); the words of the text block, the line and
\* the cell (5, 6, 7); the table has an image or not.
BuildAnnotations(reading_order, image) ==
    <<Annotation(1, "text", reading_order[1], <<>>, NoneInt, NoneInt, {5}),
      Annotation(2, "line", reading_order[2], <<>>, NoneInt, NoneInt, {6}),
      [number_of_rows |-> 1, number_of_columns |-> 1, image |-> image]
        @@ Annotation(3, "table", reading_order[3], <<>>, NoneInt, NoneInt, {4}),
      Annotation(4, "cell", NoneInt, <<>>, 1, 1, {7}),
      Annotation(5, "word", 1, <<Letters[1]>>, NoneInt, NoneInt, {}),
      Annotation(6, "word", 1, <<Letters[2]>>, NoneInt, NoneInt, {}),
      Annotation(7, "word", 1, <<Letters[3]>>, NoneInt, NoneInt, {})>>

BuildStores(anns) ==
    \E reading_order \in [1..3 -> ReadingOrders], image \in BOOLEAN :
        anns = BuildAnnotations(reading_order, image)

InitBuild ==
    /\ BuildStores(annotations)
    /\ caller_categories \in CallerCategories
    /\ floating_text_block_categories = <<>>
    /\ pc = "ready"
    /\ called = <<>>
    /\ returned = <<>>
    /\ NoDoc
    /\ NoLoop

\* page = Page.from_image(image, None, floating_text_block_categories,
\* include_residual_text_container), for the first or the second time from
\* the same image and with the same list object.  called holds the arguments
\* as they were at the call.
Build ==
    /\ pc \in {"ready", "read"}
    /\ Len(called) < 2
    /\ \E include_residual_text_container \in BOOLEAN :
        LET has_image == \E i \in 1..Len(annotations) :
                            "image" \in DOMAIN annotations[i] /\ annotations[i].image
            lists == from_image_categories(caller_categories, include_residual_text_container,
                                           has_image)
        IN  /\ floating_text_block_categories' = lists.page
            /\ caller_categories' = lists.caller
            /\ called' = Append(called,
                    [floating_text_block_categories |-> caller_categories,
                     include_residual_text_container |-> include_residual_text_container])
    /\ pc' = "built"
    /\ UNCHANGED <<annotations, returned, docVars, loopVars>>

\* page.floating_text_block_categories, page.text, page.chunks and table.csv
\* of every table of the page, read from the page that was just built
ReadPage ==
    /\ pc = "built"
    /\ returned' = Append(returned,
            [floating_text_block_categories |-> floating_text_block_categories,
             text |-> make_text,
             chunks |-> chunks,
             csv |-> [i \in 1..Len(tables) |-> table_csv(tables[i])]])
    /\ pc' = "read"
    /\ UNCHANGED <<annotations, called, docVars, loopVars, pageVars>>

NextBuild == Build \/ ReadPage

SpecBuild == InitBuild /\ [][NextBuild]_vars

----------------------------------------------------------------------------
(* Annotations that are not active *)

\* A text block (annotation 1) with two words (4, 5) and a table of one row
\* and one column (2) with a template for html, one cell (3) that holds a
\* word (6), a row (7) and a column (8); active[i] is the active flag of
\* annotation i, and every child relationship is there whatever the flags.
ActiveAnnotations(active) ==
    LET anns ==
         <<Annotation(1, "text", 1, <<>>, NoneInt, NoneInt, {4, 5}),
           [number_of_rows |-> 1, number_of_columns |-> 1,
            html |-> [present |-> TRUE, container |-> TRUE, is_list |-> TRUE,
                      value |-> <<Markup, IdStr(3), Markup>>]]
             @@ Annotation(2, "table", 2, <<>>, NoneInt, NoneInt, {3, 7, 8}),
           Annotation(3, "cell", NoneInt, <<>>, 1, 1, {6}),
           Annotation(4, "word", 1, <<Letters[1]>>, NoneInt, NoneInt, {}),
           Annotation(5, "word", 2, <<Letters[2]>>, NoneInt, NoneInt, {}),
           Annotation(6, "word", 1, <<Letters[3]>>, NoneInt, NoneInt, {}),
           Annotation(7, "row", NoneInt, <<>>, 1, NoneInt, {}),
           Annotation(8, "column", NoneInt, <<>>, NoneInt, 1, {})>>
    IN  [i \in 1..Len(anns) |-> [anns[i] EXCEPT !.active = active[i]]]

ActiveStores(anns) == \E active \in [1..8 -> BOOLEAN] : anns = ActiveAnnotations(active)

InitActive ==
    /\ ActiveStores(annotations)
    /\ pc = "ready"
    /\ called = NoneInt
    /\ returned = <<>>
    /\ NoDoc
    /\ NoLoop
    /\ DefaultPage

\* page.layouts
Layouts ==
    /\ pc = "ready"
    /\ called' = NoneInt
    /\ returned' = layouts
    /\ pc' = "layouts"
    /\ UNCHANGED <<annotations, docVars, loopVars, pageVars>>

\* page.tables
Tables ==
    /\ pc = "ready"
    /\ called' = NoneInt
    /\ returned' = tables
    /\ pc' = "tables"
    /\ UNCHANGED <<annotations, docVars, loopVars, pageVars>>

\* page.words
PageWords ==
    /\ pc = "ready"
    /\ called' = NoneInt
    /\ returned' = page_words
    /\ pc' = "page_words"
    /\ UNCHANGED <<annotations, docVars, loopVars, pageVars>>

\* table.cells on any Table view of the page
Cells ==
    /\ pc = "ready"
    /\ \E i \in 1..Len(annotations) :
          /\ ViewClass(annotations[i]) = "Table"
          /\ called' = annotations[i].annotation_id
          /\ returned' = table_cells(annotations[i])
    /\ pc' = "cells"
    /\ UNCHANGED <<annotations, docVars, loopVars, pageVars>>

\* table.rows on any Table view of the page
Rows ==
    /\ pc = "ready"
    /\ \E i \in 1..Len(annotations) :
          /\ ViewClass(annotations[i]) = "Table"
          /\ called' = annotations[i].annotation_id
          /\ returned' = table_rows(annotations[i])
    /\ pc' = "rows"
    /\ UNCHANGED <<annotations, docVars, loopVars, pageVars>>

\* table.columns on any Table view of the page
Columns ==
    /\ pc = "ready"
    /\ \E i \in 1..Len(annotations) :
          /\ ViewClass(annotations[i]) = "Table"
          /\ called' = annotations[i].annotation_id
          /\ returned' = table_columns(annotations[i])
    /\ pc' = "columns"
    /\ UNCHANGED <<annotations, docVars, loopVars, pageVars>>

NextActive ==
    \/ Layouts \/ Tables \/ PageWords \/ Words \/ Cells \/ Rows \/ Columns
    \/ Text \/ Chunks \/ Csv \/ Html

SpecActive == InitActive /\ [][NextActive]_vars

----------------------------------------------------------------------------
(* Claims about views *)

\* the annotation a method was called on
Self == annotations[CHOOSE i \in 1..Len(annotations) : annotations[i].annotation_id = called]

Ascending(ws) ==
    \A i, j \in 1..Len(ws) : i < j => ws[i].reading_order <= ws[j].reading_order

StrictlyAscending(ws) ==
    \A i, j \in 1..Len(ws) : i < j => ws[i].reading_order < ws[j].reading_order

\* ws holds exactly the elements of all that have a reading order
HoldsTheOrdered(ws, all) ==
    /\ \A i \in 1..Len(ws) : InList(ws[i], all) /\ ws[i].reading_order # NoneInt
    /\ \A i \in 1..Len(all) : all[i].reading_order # NoneInt => InList(all[i], ws)

\* the cell that has word w as a child
CellOf(w) ==
    annotations[CHOOSE i \in 1..Len(annotations) :
                    /\ annotations[i].category_name = "cell"
                    /\ w.annotation_id \in annotations[i].child]

LayoutOrderedWords(self) ==
    LET with_order == SelectSeq(layout_words(self), HasReadingOrder)
    IN  list_sort(with_order, ReadingOrderLess(with_order))

\* what Layout.text returns for the child words of a block
LayoutText(self) ==
    LET ordered == LayoutOrderedWords(self)
    IN  Join(<<" ">>, [i \in 1..Len(ordered) |-> ordered[i].characters])

\* C11: for a Table without cells words, get_ordered_words() and text are
\* what a Layout returns for the same annotation: its child words, those
\* with a reading order sorted by it, and their characters joined by spaces;
\* none of them raises.
C11_TableWithoutCellsIsALayout ==
    (pc # "ready" /\ ViewClass(Self) = "Table" /\ table_cells(Self) = <<>>) =>
        /\ pc = "words" => returned = layout_words(Self)
        /\ pc = "done" => returned = LayoutOrderedWords(Self)
        /\ pc = "text" => returned = Return(LayoutText(Self))

\* the table has its number of rows and columns and every cell lies in the grid
ConsistentGrid(table) ==
    LET cells == table_cells(table) IN
    /\ attribute(table, "number_of_rows") # NoneInt
    /\ attribute(table, "number_of_columns") # NoneInt
    /\ \A i \in 1..Len(cells) :
          /\ 1 <= cells[i].row_number /\ cells[i].row_number <= table.number_of_rows
          /\ 1 <= cells[i].column_number /\ cells[i].column_number <= table.number_of_columns

\* text + " " of the cells anchored at (r, c), in the order of the cell list
AnchoredAt(table, r, c) ==
    LET cells == table_cells(table) IN
    Concat([i \in 1..Len(cells) |->
                IF cells[i].row_number = r /\ cells[i].column_number = c
                THEN layout_text(cells[i]) \o <<" ">>
                ELSE <<>>])

\* C12: for a table with number_of_rows = R and number_of_columns = C whose
\* cells all lie in the grid, csv has exactly R rows of exactly C entries, the
\* entry at (r-1, c-1) is the concatenation in cell order of text + " " of the
\* cells anchored at (r, c), and an entry that is no cell's anchor is empty,
\* also when a spanning cell covers it.
C12_CsvIsTheGridOfAnchors ==
    (pc = "csv" /\ ConsistentGrid(Self)) =>
        /\ returned.raise = ""
        /\ Len(returned.value) = Self.number_of_rows
        /\ \A r \in 1..Self.number_of_rows :
              /\ Len(returned.value[r]) = Self.number_of_columns
              /\ \A c \in 1..Self.number_of_columns :
                    returned.value[r][c] = AnchoredAt(Self, r, c)

\* C12 witness: a grid of one row and two columns with two cells anchored at
\* (1, 1), the second spanning both columns: the first entry holds both texts,
\* the second is empty.
C12_Witness ==
    /\ pc = "csv"
    /\ ConsistentGrid(Self)
    /\ Self.number_of_rows = 1
    /\ Self.number_of_columns = 2
    /\ Len(table_cells(Self)) = 2
    /\ table_cells(Self)[2].column_span = 2
    /\ returned = Return(<< << <<"a", " ", "b", " ">>, <<>> >> >>)

\* C15: Table.text is the rendering of the csv grid when Table.csv can be
\* built, and whenever the construction of the grid fails (a missing row or
\* column count, a missing row or column number of a cell, a cell outside the
\* grid) it is the Layout text; the failure is never propagated.
C15_TextFallsBackWhenCsvFails ==
    (pc = "text" /\ ViewClass(Self) = "Table") =>
        /\ returned.raise = ""
        /\ table_csv(Self).raise = "" => returned = table_str(Self)
        /\ table_csv(Self).raise # "" => returned = Return(layout_text(Self))

\* the cell of the table whose id is the entry, if any
IsCellId(table, entry) ==
    \E i \in 1..Len(table_cells(table)) : entry = IdStr(table_cells(table)[i].annotation_id)

CellWithId(table, entry) ==
    LET cells == table_cells(table)
    IN  cells[CHOOSE i \in 1..Len(cells) : entry = IdStr(cells[i].annotation_id)]

\* the template with the text of the cell in place of every entry that is
\* the id of a cell of the table
Substituted(table, template) ==
    [i \in 1..Len(template) |->
        IF IsCellId(table, template[i]) THEN layout_text(CellWithId(table, template[i]))
        ELSE template[i]]

InTemplate(template, cell) == \E i \in 1..Len(template) : template[i] = IdStr(cell.annotation_id)

\* C13: when the id of every cell of the table occurs in the stored template
\* list, Table.html is the concatenation of the template with every cell id
\* entry replaced by the text of that cell, the markup entries unchanged and
\* in their order, and the list has the length of the template after the
\* substitution.
C13_HtmlSubstitutesEveryCell ==
    (pc = "html" /\ \A i \in 1..Len(table_cells(Self)) :
                        InTemplate(html_template(Self), table_cells(Self)[i])) =>
        /\ returned.value.html_list = Substituted(Self, html_template(Self))
        /\ Len(returned.value.html_list) = Len(html_template(Self))
        /\ returned.value.html = Join(<<>>, Substituted(Self, html_template(Self)))

\* C13 witness: the template < #3 #2 of a table with the cells 2 and 3, in
\* this order, that hold the words a and b: the result is "<" "b" "a".
C13_Witness ==
    /\ pc = "html"
    /\ Len(table_cells(Self)) = 2
    /\ html_template(Self) = <<Markup, IdStr(3), IdStr(2)>>
    /\ returned.value.html = <<"<", "b", "a">>

\* C14: Table.html never fails on a mismatch of cells and template: it warns
\* for exactly the cells whose id is not in the template (every cell, when
\* the template is missing or no list), substitutes the other cells, and
\* returns a string.
C14_HtmlSkipsCellsOutsideTheTemplate ==
    pc = "html" =>
        LET cells == table_cells(Self)
            template == html_template(Self)
            Missing(cell) == ~InTemplate(template, cell)
            missing == SelectSeq(cells, Missing)
        IN  /\ returned.raise = ""
            /\ returned.value.warnings = [i \in 1..Len(missing) |-> missing[i].annotation_id]
            /\ \A i \in 1..Len(cells) :
                  InTemplate(template, cells[i]) =>
                      \E k \in 1..Len(template) :
                          /\ template[k] = IdStr(cells[i].annotation_id)
                          /\ returned.value.html_list[k] = layout_text(cells[i])
            /\ returned.value.html = Join(<<>>, returned.value.html_list)

\* C14 witness: the first cell of a table is not in the template, the second
\* is: one warning, and the text of the second cell is in the result.
C14_Witness ==
    /\ pc = "html"
    /\ Len(table_cells(Self)) = 2
    /\ html_template(Self) = <<Markup, IdStr(3)>>
    /\ returned.value.warnings = <<2>>
    /\ returned.value.html = <<"<", "b">>

\* the annotation_id of every chunk
ChunkIds(cs) == [i \in 1..Len(cs) |-> cs[i][4]]

\* the annotations with the ids, in that order
WithIds(ids) ==
    [k \in 1..Len(ids) |->
        annotations[CHOOSE i \in 1..Len(annotations) : annotations[i].annotation_id = ids[k]]]

\* C16: Page.chunks is the layout blocks with a reading order, ascending
\* (not strictly) by it, followed by one chunk for exactly every table of the
\* page whose reading order is not null, 0 included; a table with null
\* reading order has no chunk.
C16_ChunksEndWithTheOrderedTables ==
    pc = "chunks" =>
        LET ordered == SelectSeq(layouts, HasReadingOrder)
            tabs == SelectSeq(tables, HasReadingOrder)
            ids == ChunkIds(returned.value)
            head == SubSeq(ids, 1, Len(ordered))
            tail == SubSeq(ids, Len(ordered) + 1, Len(ids))
        IN  /\ returned.raise = ""
            /\ Len(ids) = Len(ordered) + Len(tabs)
            /\ {head[i] : i \in 1..Len(head)} = {ordered[i].annotation_id : i \in 1..Len(ordered)}
            /\ Ascending(WithIds(head))
            /\ {tail[i] : i \in 1..Len(tail)} = {tabs[i].annotation_id : i \in 1..Len(tabs)}

\* the block get_layout_context was called for
Target == annotations[CHOOSE i \in 1..Len(annotations) : annotations[i].annotation_id = called[1]]

OnPage(annotation_id) ==
    \E i \in 1..Len(annotations) :
        annotations[i].annotation_id = annotation_id /\ annotations[i].active

\* C17: for the id of every active annotation of a floating text block
\* category and every window w >= 0, get_layout_context(id, w) returns the
\* slice of the layouts in reading order from position - w to position + w,
\* clipped to the list: it holds the block, has at most 2w + 1 elements and
\* is in reading order.
C17_ContextIsTheClippedWindow ==
    (pc = "context" /\ OnPage(called[1])
        /\ Target.category_name \in Range(floating_text_block_categories)) =>
        LET w == called[2]
            ordered == order(layouts)
        IN  /\ returned.raise = ""
            /\ InList(Target, returned.value)
            /\ Len(returned.value) <= 2 * w + 1
            /\ Ascending(returned.value)
            /\ \E position \in 1..Len(ordered) :
                  /\ ordered[position] = Target
                  /\ returned.value =
                        SelectSeq(ordered, LAMBDA b :
                            \E k \in 1..Len(ordered) :
                                ordered[k] = b /\ position - w <= k /\ k <= position + w)

\* C18: get_layout_context with the id of an annotation whose category is no
\* floating text block category raises ImageError and returns no slice; the
\* annotations of the page are as they were.
C18_ContextOfOtherCategoryRaises ==
    /\ [](( pc = "context" /\ OnPage(called[1])
            /\ Target.category_name \notin Range(floating_text_block_categories))
          => returned = Raise("ImageError"))
    /\ [][pc' = "context" => annotations' = annotations]_vars

\* C18 witness: the context of a table was asked for and ImageError raised
C18_Witness ==
    /\ pc = "context"
    /\ OnPage(called[1])
    /\ Target.category_name = "table"
    /\ Target.reading_order = 1
    /\ returned = Raise("ImageError")

\* the names that the view registers, by the sets the spec lists
Registered ==
    {"bbox", "np_image"} \cup DOMAIN annotations[1].sub_categories
        \cup (IF annotations[1].image.is_none \/ annotations[1].image.summary_is_none
              THEN {} ELSE DOMAIN annotations[1].image.summary_sub_categories)

\* C19: reading a name outside the registered names of a view (bbox,
\* np_image, the keys of its sub categories, the keys of the sub categories of
\* the summary) raises AnnotationError; reading a registered name raises
\* nothing, and returns None when neither the sub categories nor the summary
\* hold the name.
C19_UnregisteredRaisesRegisteredDoesNot ==
    pc = "getattr" =>
        /\ called \notin Registered => returned = Raise("AnnotationError")
        /\ called \in Registered =>
            /\ returned.raise = ""
            /\ (/\ called \notin DOMAIN annotations[1].sub_categories
                /\ called \notin DOMAIN summary_sub_categories(annotations[1]))
                    => returned.value = PyNone

\* C19 witness: a name that is no key of the view, which has a sub category
\* and a summary with a sub category, was read and AnnotationError raised
C19_Witness ==
    /\ pc = "getattr"
    /\ called = "unknown"
    /\ DOMAIN annotations[1].sub_categories = {"token_tag"}
    /\ DOMAIN summary_sub_categories(annotations[1]) = {"document_type"}
    /\ returned = Raise("AnnotationError")

\* the result for a sub category by the three rules: its category name when
\* that is not the key, else its value when it is a container, else its
\* category id
ByTheRules(key, sub_cat) ==
    IF sub_cat.category_name # key THEN [type |-> "str", str |-> sub_cat.category_name, int |-> 0]
    ELSE IF sub_cat.container THEN [type |-> "str", str |-> sub_cat.value, int |-> 0]
    ELSE [type |-> "int", str |-> "", int |-> sub_cat.category_id]

\* C20: a sub category of the view under the name that is read decides the
\* result, whatever the summary holds under the name; the summary decides
\* only when the view has no sub category under the name; either way the
\* result is the category name when it differs from the name, else the value
\* of a container, else the category id.
C20_SubCategoryBeforeSummary ==
    pc = "getattr" =>
        /\ called \in DOMAIN annotations[1].sub_categories =>
            returned = Return(ByTheRules(called, annotations[1].sub_categories[called]))
        /\ (/\ called \notin DOMAIN annotations[1].sub_categories
            /\ ~annotations[1].image.is_none
            /\ ~annotations[1].image.summary_is_none
            /\ called \in DOMAIN annotations[1].image.summary_sub_categories) =>
            returned = Return(ByTheRules(called, annotations[1].image.summary_sub_categories[called]))

\* C20 witness: the view and the summary both hold the name as a container
\* of its own category name, with different values, and the value of the
\* view was returned
C20_Witness ==
    /\ pc = "getattr"
    /\ called = "token_tag"
    /\ called \in DOMAIN annotations[1].sub_categories
    /\ called \in DOMAIN summary_sub_categories(annotations[1])
    /\ annotations[1].sub_categories[called].category_name = called
    /\ annotations[1].sub_categories[called].container
    /\ annotations[1].sub_categories[called].value = "a"
    /\ summary_sub_categories(annotations[1])[called].category_name = called
    /\ summary_sub_categories(annotations[1])[called].container
    /\ summary_sub_categories(annotations[1])[called].value = "b"
    /\ returned = Return([type |-> "str", str |-> "a", int |-> 0])

\* C21 as stated: an annotation of the text container's category becomes a
\* Word; otherwise table and table_rotated become Table, the cell-like
\* categories Cell, every other category of the table Layout, and a category
\* outside the table raises and gives no view.
C21_EveryOtherCategoryIsALayout ==
    pc = "factory" =>
        LET category_name == annotations[1].category_name IN
        IF category_name = called[2] THEN returned = Return("Word")
        ELSE IF category_name \in {"table", "table_rotated"} THEN returned = Return("Table")
        ELSE IF category_name \in {"cell", "spanning", "row_header", "column_header",
                                   "projected_row_header"} THEN returned = Return("Cell")
        ELSE IF category_name \in LayoutType THEN returned = Return("Layout")
        ELSE returned.raise # "" /\ returned.value = <<>>

\* C21: an annotation of the text container's category becomes a Word;
\* otherwise table and table_rotated become Table, the cell-like categories
\* Cell, the word category Word also when it is not the text container,
\* every other category of the table Layout, and a category outside the
\* table (header and body among them) raises and gives no view.
C21_WordIsAWordUnderEveryContainer ==
    pc = "factory" =>
        LET category_name == annotations[1].category_name IN
        IF category_name = called[2] THEN returned = Return("Word")
        ELSE IF category_name \in {"table", "table_rotated"} THEN returned = Return("Table")
        ELSE IF category_name \in {"cell", "spanning", "row_header", "column_header",
                                   "projected_row_header"} THEN returned = Return("Cell")
        ELSE IF category_name = "word" THEN returned = Return("Word")
        ELSE IF category_name \in LayoutType THEN returned = Return("Layout")
        ELSE returned.raise # "" /\ returned.value = <<>>

\* C21 witness: the view of a word was made with line as the text container
\* and is a Word
C21_Witness ==
    /\ pc = "factory"
    /\ annotations[1].category_name = "word"
    /\ called[2] = "line"
    /\ returned = Return("Word")

\* C22: after Page.from_image on a top level image, every view made during
\* the build, at every depth of nested images, has the outermost page as its
\* base_page and never the page of a nested image.
C22_BasePageIsTheOutermostPage ==
    pc = "from_image" =>
        \A i \in 1..Len(returned) : returned[i].base_page = <<>>

\* C23: two builds of a page from the same annotations with the same
\* configuration give the same page text, the same chunks and the same csv of
\* every table.
C23_SecondBuildEqualsTheFirst ==
    (pc = "read" /\ Len(returned) = 2
        /\ called[1].include_residual_text_container = called[2].include_residual_text_container)
    => /\ returned[1].text = returned[2].text
       /\ returned[1].chunks = returned[2].chunks
       /\ returned[1].csv = returned[2].csv

\* C23 witness: the caller's list has no line, both builds include the
\* residual text container, and the line is in the text of both pages
C23_Witness ==
    /\ pc = "read"
    /\ Len(returned) = 2
    /\ called[1].floating_text_block_categories = Some(<<"text">>)
    /\ called[1].include_residual_text_container
    /\ called[2].include_residual_text_container
    /\ annotations[1].reading_order = 1
    /\ annotations[2].reading_order = 2
    /\ returned[1].text = Return(<<"a", "\n", "b", "\n">>)
    /\ returned[2].text = returned[1].text

\* C27: Page.from_image leaves the caller's floating_text_block_categories
\* list as it was at the call, whatever include_residual_text_container is,
\* so a build with include_residual_text_container = False from a list that
\* the caller made without line gives a page for which line is no floating
\* text block.
C27_FromImageLeavesTheListAlone ==
    /\ \A i \in 1..Len(called) :
          called[i].floating_text_block_categories =
              IF i < Len(called) THEN called[i + 1].floating_text_block_categories
              ELSE caller_categories
    /\ \A i \in 1..Len(returned) :
          (/\ ~called[i].include_residual_text_container
           /\ called[1].floating_text_block_categories # None
           /\ "line" \notin Range(called[1].floating_text_block_categories[1]))
          => "line" \notin Range(returned[i].floating_text_block_categories)

\* C24: the three outputs of text_ of a Layout, Cell or Table are aligned:
\* text_list and annotation_ids have one length, text_list[i] is the
\* characters of the word with the id annotation_ids[i], and text is
\* text_list joined by single spaces, also for a table with a cell that has
\* no ordered words.
C24_TextIsTheJoinOfTextList ==
    pc = "text_" =>
        /\ Len(returned.text_list) = Len(returned.annotation_ids)
        /\ \A i \in 1..Len(returned.annotation_ids) :
              \E k \in 1..Len(annotations) :
                  /\ annotations[k].annotation_id = returned.annotation_ids[i]
                  /\ annotations[k].characters = returned.text_list[i]
        /\ returned.text = Join(<<" ">>, returned.text_list)

\* the permutations of the cells in which the (row_number, column_number)
\* never descend
Arrangements(cells) ==
    {q \in [1..Len(cells) -> 1..Len(cells)] :
        /\ \A i, j \in 1..Len(cells) : i # j => q[i] # q[j]
        /\ \A i, j \in 1..Len(cells) : i < j => ~KeyLess(cells[q[j]], cells[q[i]])}

\* the ordered words of the cells, cell after cell in the arrangement q
Along(cells, q) == Concat([i \in 1..Len(cells) |-> layout_get_ordered_words(cells[q[i]])])

\* get_ordered_words() was called on a table with a cell whose cells all
\* have a row and a column number
NumberedTable ==
    /\ pc = "done"
    /\ ViewClass(Self) = "Table"
    /\ table_cells(Self) # <<>>
    /\ \A i \in 1..Len(table_cells(Self)) :
          /\ table_cells(Self)[i].row_number # NoneInt
          /\ table_cells(Self)[i].column_number # NoneInt

LettersOfInactiveWords ==
    {annotations[k].characters[1] :
        k \in {k \in 1..Len(annotations) :
                  annotations[k].category_name = "word" /\ ~annotations[k].active}}

\* the characters of the words that a cell that is not active has as children
LettersOfInactiveCells ==
    {annotations[k].characters[1] :
        k \in {k \in 1..Len(annotations) :
                  /\ annotations[k].category_name = "word"
                  /\ \E c \in 1..Len(annotations) :
                        /\ annotations[c].category_name = "cell"
                        /\ ~annotations[c].active
                        /\ annotations[k].annotation_id \in annotations[c].child}}

\* the characters of the words that a layout block or table that is not
\* active has as children or as children of its cells
LettersOfInactiveBlocks ==
    {annotations[k].characters[1] :
        k \in {k \in 1..Len(annotations) :
                  /\ annotations[k].category_name = "word"
                  /\ \E b \in 1..Len(annotations) :
                        /\ annotations[b].category_name \in {"text", "table"}
                        /\ ~annotations[b].active
                        /\ \/ annotations[k].annotation_id \in annotations[b].child
                           \/ \E c \in 1..Len(annotations) :
                                /\ annotations[c].annotation_id \in annotations[b].child
                                /\ annotations[k].annotation_id \in annotations[c].child}}

\* C26: an annotation that is not active is in none of page.layouts,
\* page.tables, page.words, words of a view, cells, rows and columns of a
\* table, and nothing of it is in a text, in the chunks, in a csv or in an
\* html: not the characters of a word that is not active, not those of the
\* words of a cell that is not active in what a table gives, and no chunk
\* is of a block that is not active.  The child relationships list the
\* annotation all the same.
C26_InactiveAnnotationsAreInvisible ==
    /\ pc \in {"layouts", "tables", "page_words", "words", "cells", "rows", "columns"}
        => \A i \in 1..Len(returned) : returned[i].active
    /\ pc = "text"
        => /\ returned.raise = ""
           /\ Range(returned.value) \cap LettersOfInactiveWords = {}
           /\ ViewClass(Self) = "Table"
                => Range(returned.value) \cap LettersOfInactiveCells = {}
    /\ pc = "csv"
        => /\ returned.raise = ""
           /\ \A r \in 1..Len(returned.value) : \A c \in 1..Len(returned.value[r]) :
                 Range(returned.value[r][c])
                    \cap (LettersOfInactiveWords \cup LettersOfInactiveCells) = {}
    /\ pc = "html"
        => Range(returned.value.html)
              \cap (LettersOfInactiveWords \cup LettersOfInactiveCells) = {}
    /\ pc = "chunks"
        => /\ returned.raise = ""
           /\ \A i \in 1..Len(returned.value) :
                 /\ \E k \in 1..Len(annotations) :
                       /\ annotations[k].annotation_id = returned.value[i][4]
                       /\ annotations[k].active
                 /\ Range(returned.value[i][7])
                       \cap (LettersOfInactiveWords \cup LettersOfInactiveCells
                             \cup LettersOfInactiveBlocks) = {}

\* C26 witness: the cell of the table is not active and still a child of the
\* table, its word is active, and the csv of the table has an empty tile
C26_Witness ==
    /\ pc = "csv"
    /\ Self.active
    /\ 3 \in Self.child
    /\ ~annotations[3].active
    /\ annotations[6].active
    /\ returned = Return(<<<< <<>> >>>>)

\* the list ps with the elements at k and k + 1 exchanged
Exchanged(ps, k) ==
    [i \in 1..Len(ps) |-> IF i = k THEN ps[k + 1] ELSE IF i = k + 1 THEN ps[k] ELSE ps[i]]

\* C28: for pages with distinct page numbers detect_multi_page_entities
\* gives the same result for every order of the page list, and the pairs of
\* a kind are numbered in ascending order of their page numbers.  The
\* documents are all the orders of their pages, so that the same result
\* after the exchange of any two neighbours is the same result for every
\* order.
C28_ResultForEveryOrderOfThePages ==
    pc = "done" =>
        /\ \A k \in 1..(Len(pages) - 1) :
              detect_multi_page_entities(Exchanged(pages, k)) = final_result
        /\ \A kind \in DOMAIN final_result :
              \A i, j \in 0..(Len(pages) - 1) :
                  (i < j /\ Str(i) \in DOMAIN final_result[kind]
                         /\ Str(j) \in DOMAIN final_result[kind])
                  => final_result[kind][Str(i)][1].page_num
                        < final_result[kind][Str(j)][1].page_num

\* C28 witness: the page list is in descending order of the page numbers and
\* two entities of one kind were found
C28_Witness ==
    /\ pc = "done"
    /\ Len(pages) >= 3
    /\ \A i \in 1..(Len(pages) - 1) : pages[i].page_number > pages[i + 1].page_number
    /\ \E kind \in DOMAIN final_result : {"0", "1"} \subseteq DOMAIN final_result[kind]

\* the first record of the metadata list, in list order, with the page number
FirstOnPage(page_num) ==
    metadata_list[CHOOSE i \in 1..Len(metadata_list) :
                    /\ metadata_list[i].page_num = page_num
                    /\ \A j \in 1..(i - 1) : metadata_list[j].page_num # page_num]

C30_OneChunkForAnAnnotation ==
    \A b \in 1..Len(returned) :
        pc \in {"read", "built"} =>
            /\ returned[b].chunks.raise = ""
            /\ \A i, j \in 1..Len(returned[b].chunks.value) :
                  returned[b].chunks.value[i][4] = returned[b].chunks.value[j][4] => i = j
            /\ \A i \in 1..Len(returned[b].chunks.value) :
                  /\ Len(returned[b].chunks.value[i]) = 7
                  /\ returned[b].chunks.value[i][1] = PageInfo.document_id
                  /\ returned[b].chunks.value[i][2] = PageInfo.image_id
                  /\ returned[b].chunks.value[i][3] = PageInfo.page_number

====
